---- MODULE Spec2Model ----
(***************************************************************************)
(* FocusForge session analysis: the domain aggregation of analyzer.py and  *)
(* the enrichment pipeline of gemini_analyzer.py.                          *)
(*                                                                         *)
(* Strings are modelled as sequences of tokens (a coarse character model): *)
(* the Python string is the concatenation of the tokens, "" is <<>>, and   *)
(* the token alphabet is chosen so that no token is a substring of a       *)
(* concatenation of other tokens.  An event that lacks a key behaves in    *)
(* the code exactly as one holding the key's default (event.get(k, d)), so *)
(* every event record carries all four keys.                               *)
(***************************************************************************)
EXTENDS Integers, Sequences, FiniteSets, TLC

VARIABLES
    op,           \* the entry point this call runs
    goal,         \* the caller's goal string
    events,       \* the caller's event list (eventsWithDuration["events"])
    given,        \* the event list as the caller passed it (history)
    max_workspaces, \* argument of create_workspaces_from_domains
    pc,           \* position of the call
    result,       \* what the call returned or raised
    domain_data,  \* the accumulator group_events_by_domain built last
    prev,         \* the argument of the last normalize_ai_fields call (history)
    candidate,    \* the enrichment object: validate_output's argument, gemini_result
    env,          \* GEMINI_AVAILABLE, use_gemini, and whether an API key is at hand
    requests,     \* generate_content requests sent by this call
    service,      \* what the external service did in this call (history)
    loop,         \* the tool-use loop: max_tool_iterations, iteration, tool_registry,
                  \* and how many answers held function calls
    sent          \* the prompts call_gemini sent, each with the kind of its answer

vars == <<op, goal, events, given, max_workspaces, pc, result, domain_data, prev,
          candidate, env, requests, service, loop, sent>>

gemini_vars == <<candidate, env, requests, service, loop, sent>>

(***************************************************************************)
(* Bounds of the model and constants of the program.                       *)
(***************************************************************************)
MaxEvents == 3
MaxDur == 1
MaxArg == 2

MaxShort == 2
DefaultMaxWorkspaces == 5
MaxTopUrls == 5

(***************************************************************************)
(* Generic sequence helpers.                                               *)
(***************************************************************************)
Range(s) == {s[i] : i \in 1..Len(s)}

Take(s, n) == IF n <= 0 THEN <<>> ELSE SubSeq(s, 1, IF n < Len(s) THEN n ELSE Len(s))

Min(a, b) == IF a < b THEN a ELSE b

RECURSIVE SeqSum(_)
SeqSum(s) == IF s = <<>> THEN 0 ELSE Head(s) + SeqSum(Tail(s))

RECURSIVE SeqsUpTo(_, _)
SeqsUpTo(S, n) ==
    IF n = 0 THEN {<<>>}
    ELSE LET shorter == SeqsUpTo(S, n - 1)
         IN  shorter \cup {Append(s, e) : s \in {t \in shorter : Len(t) = n - 1}, e \in S}

(***************************************************************************)
(* urlparse (urllib) on token strings, and extract_domain.                 *)
(***************************************************************************)
SchemeTokens == {"https://", "http://"}
PathTokens == {"/x", "/y", "/X", "/p1", "/p2", "/p3", "/p4", "/p5", "/p6"}
BadHostTokens == {"[::1"}

Lower(tok) ==
    CASE tok = "A.com" -> "a.com"
      [] tok = "WWW."  -> "www."
      [] tok = "/X"    -> "/x"
      [] OTHER         -> tok

RECURSIVE NetlocLen(_)
NetlocLen(s) ==
    IF s = <<>> \/ Head(s) \in PathTokens THEN 0 ELSE 1 + NetlocLen(Tail(s))

urlparse(url) ==
    IF url # <<>> /\ Head(url) \in SchemeTokens
    THEN LET rest == Tail(url)
             n    == NetlocLen(rest)
         IN  [raises |-> \E i \in 1..n : rest[i] \in BadHostTokens,
              netloc |-> SubSeq(rest, 1, n),
              path   |-> SubSeq(rest, n + 1, Len(rest))]
    ELSE [raises |-> FALSE, netloc |-> <<>>, path |-> url]

extract_domain(url) ==
    LET parsed == urlparse(url)
    IN  IF parsed.raises THEN <<"unknown">>
        ELSE LET domain   == IF parsed.netloc # <<>> THEN parsed.netloc ELSE parsed.path
                 stripped == IF domain # <<>> /\ Lower(Head(domain)) = "www."
                             THEN Tail(domain) ELSE domain
             IN  [i \in 1..Len(stripped) |-> Lower(stripped[i])]

(***************************************************************************)
(* group_events_by_domain: an insertion-ordered mapping                    *)
(* domain -> {timeSec, urls: url -> timeSec}, as a sequence of entries in  *)
(* first-insertion order (the iteration order of a Python dict).           *)
(***************************************************************************)
KeyIndex(entries, k) ==
    IF \E i \in 1..Len(entries) : entries[i].key = k
    THEN CHOOSE i \in 1..Len(entries) : entries[i].key = k
    ELSE 0

AddUrlTime(urls, url, duration) ==
    LET i == KeyIndex(urls, url)
    IN  IF i = 0 THEN Append(urls, [key |-> url, timeSec |-> duration])
        ELSE [urls EXCEPT ![i].timeSec = @ + duration]

AddEventCountingTwice(data, event) ==
    LET domain == extract_domain(event.url)
        i      == KeyIndex(data, domain)
    IN  IF i = 0
        THEN Append(data, [key |-> domain, timeSec |-> 2 * event.durationSec,
                           urls |-> AddUrlTime(<<>>, event.url, event.durationSec)])
        ELSE [data EXCEPT ![i].timeSec = @ + 2 * event.durationSec,
                          ![i].urls = AddUrlTime(@, event.url, event.durationSec)]

AddEventOverwriting(data, event) ==
    LET domain == extract_domain(event.url)
        i      == KeyIndex(data, domain)
    IN  IF i = 0
        THEN Append(data, [key |-> domain, timeSec |-> event.durationSec,
                           urls |-> AddUrlTime(<<>>, event.url, event.durationSec)])
        ELSE [data EXCEPT ![i].timeSec = event.durationSec,
                          ![i].urls = AddUrlTime(@, event.url, event.durationSec)]

AddEvent(data, event) ==
    LET domain == extract_domain(event.url)
        i      == KeyIndex(data, domain)
    IN  IF i = 0
        THEN Append(data, [key |-> domain, timeSec |-> event.durationSec,
                           urls |-> AddUrlTime(<<>>, event.url, event.durationSec)])
        ELSE [data EXCEPT ![i].timeSec = @ + event.durationSec,
                          ![i].urls = AddUrlTime(@, event.url, event.durationSec)]

RECURSIVE FoldEvents(_, _)
FoldEvents(data, evs) ==
    IF evs = <<>> THEN data ELSE FoldEvents(AddEvent(data, Head(evs)), Tail(evs))

NewDomainData == <<>>

group_events_by_domain(evs) == FoldEvents(NewDomainData, evs)

(***************************************************************************)
(* sorted(items, key=..., reverse=True): Python's sort is stable, also     *)
(* with reverse=True, so items with equal keys keep their original order.  *)
(* The sort is computed on the sequence of keys and yields the order of    *)
(* the indices.                                                            *)
(***************************************************************************)
RECURSIVE InsertReversed(_, _, _)
InsertReversed(acc, i, keys) ==
    IF acc = <<>> THEN <<i>>
    ELSE IF keys[Head(acc)] > keys[i]
         THEN <<Head(acc)>> \o InsertReversed(Tail(acc), i, keys)
         ELSE <<i>> \o acc

RECURSIVE InsertDesc(_, _, _)
InsertDesc(acc, i, keys) ==
    IF acc = <<>> THEN <<i>>
    ELSE IF keys[Head(acc)] >= keys[i]
         THEN <<Head(acc)>> \o InsertDesc(Tail(acc), i, keys)
         ELSE <<i>> \o acc

RECURSIVE SortedIndexDesc(_, _)
SortedIndexDesc(keys, n) ==
    IF n = 0 THEN <<>> ELSE InsertDesc(SortedIndexDesc(keys, n - 1), n, keys)

SortedDesc(items, keys) ==
    LET order == SortedIndexDesc(keys, Len(items))
    IN  [i \in 1..Len(items) |-> items[order[i]]]

TimeKeys(items) == [i \in 1..Len(items) |-> items[i].timeSec]

GetAllUrls(url_dict, max_urls) ==
    LET sorted_urls == SortedDesc(url_dict, TimeKeys(url_dict))
    IN  [i \in 1..Len(sorted_urls) |-> sorted_urls[i].key]

get_top_urls(url_dict, max_urls) ==
    LET sorted_urls == Take(SortedDesc(url_dict, TimeKeys(url_dict)), max_urls)
    IN  [i \in 1..Len(sorted_urls) |-> sorted_urls[i].key]

create_workspaces_from_domains(data, maxWs) ==
    LET sorted_domains == Take(SortedDesc(data, TimeKeys(data)), maxWs)
    IN  [i \in 1..Len(sorted_domains) |->
            [label   |-> sorted_domains[i].key,
             timeSec |-> sorted_domains[i].timeSec,
             topUrls |-> get_top_urls(sorted_domains[i].urls, MaxTopUrls)]]

(***************************************************************************)
(* get_last_stop.                                                          *)
(***************************************************************************)
TsKeys(evs) == [i \in 1..Len(evs) |-> evs[i].ts]

EventsSortedInPlace(evs) == SortedDesc(evs, TsKeys(evs))

EventsAfterSorted(evs) == evs

GetLastStopLatestWins(evs) ==
    IF evs = <<>> THEN [label |-> <<"Unknown">>, url |-> <<>>]
    ELSE LET sorted_events == SortedDesc(evs, TsKeys(evs))
             last_event    == sorted_events[Cardinality({i \in 1..Len(evs) :
                                  evs[i].ts = sorted_events[1].ts})]
             domain        == extract_domain(last_event.url)
         IN  [label |-> IF last_event.title # <<>> THEN last_event.title
                        ELSE IF domain # <<>> THEN domain ELSE <<"Unknown">>,
              url   |-> last_event.url]

get_last_stop(evs) ==
    IF evs = <<>> THEN [label |-> <<"Unknown">>, url |-> <<>>]
    ELSE LET sorted_events == SortedDesc(evs, TsKeys(evs))
             last_event    == sorted_events[1]
             domain        == extract_domain(last_event.url)
         IN  [label |-> IF last_event.title # <<>> THEN last_event.title
                        ELSE IF domain # <<>> THEN domain ELSE <<"Unknown">>,
              url   |-> last_event.url]

(***************************************************************************)
(* analyzeSession.                                                         *)
(***************************************************************************)
WorkspaceTimes(workspaces) == [i \in 1..Len(workspaces) |-> workspaces[i].timeSec]

EmptySummaryIgnoringGoal(g) ==
    [goalInferred     |-> <<"No activity detected">>,
     workspaces       |-> <<>>,
     resumeSummary    |-> <<"No browser activity was recorded in this session.">>,
     lastStop         |-> [label |-> <<"Unknown">>, url |-> <<>>],
     nextActions      |-> <<>>,
     pendingDecisions |-> <<>>]

EmptySummary(g) ==
    [goalInferred     |-> IF g # <<>> THEN g ELSE <<"No activity detected">>,
     workspaces       |-> <<>>,
     resumeSummary    |-> <<"No browser activity was recorded in this session.">>,
     lastStop         |-> [label |-> <<"Unknown">>, url |-> <<>>],
     nextActions      |-> <<>>,
     pendingDecisions |-> <<>>]

GoalInferredUnchecked(g, workspaces) ==
    IF g = <<>> /\ workspaces # <<>> THEN <<"Working on ">> \o workspaces[1].label ELSE g

\* goal_inferred
GoalInferred(g, workspaces) ==
    LET top_domain == IF workspaces # <<>> THEN workspaces[1].label ELSE <<>>
    IN  IF g = <<>> /\ workspaces # <<>>
        THEN IF top_domain # <<>> THEN <<"Working on ">> \o top_domain
             ELSE <<"No specific goal identified">>
        ELSE g

\* resume_summary
ResumeSummary(workspaces) ==
    LET total_time == SeqSum(WorkspaceTimes(workspaces))
        num_sites  == Len(workspaces)
        base == <<"Spent ", ToString(total_time), " seconds across ",
                  ToString(num_sites), " different sites.">>
    IN  IF workspaces # <<>>
        THEN base \o <<" Most time on ">> \o workspaces[1].label \o <<".">>
        ELSE base

\* next_actions
NextActions(workspaces) ==
    IF workspaces # <<>>
    THEN << <<"Continue work on ">> \o workspaces[1].label,
            <<"Review progress and plan next steps">> >>
    ELSE <<>>

SummaryFrom(g, data, evs) ==
    LET workspaces == create_workspaces_from_domains(data, DefaultMaxWorkspaces)
        last_stop  == get_last_stop(evs)
    IN  [goalInferred     |-> GoalInferred(g, workspaces),
         workspaces       |-> workspaces,
         resumeSummary    |-> ResumeSummary(workspaces),
         lastStop         |-> last_stop,
         nextActions      |-> Take(NextActions(workspaces), 5),
         pendingDecisions |-> <<>>]

analyzeSession(g, evs) ==
    IF evs = <<>> THEN EmptySummary(g)
    ELSE SummaryFrom(g, group_events_by_domain(evs), evs)

(***************************************************************************)
(* Inputs.                                                                 *)
(***************************************************************************)
Goals == {<<>>, <<"Prepare for interview">>}

Titles == {<<>>, <<"Two Sum">>}

Durations == 0..MaxDur

Timestamps == {100, 200}

Urls ==
    { <<>>,
      <<"https://", "a.com", "/x">>,
      <<"https://", "www.", "A.com", "/y">>,
      <<"a.com", "/x">>,
      <<"WWW.", "b.org">>,
      <<"https://", "b.org">>,
      <<"http://", "[::1">> }

MainUrls ==
    { <<"https://", "a.com", "/x">>,
      <<"https://", "www.", "A.com", "/y">>,
      <<"https://", "b.org">> }

EventSet(urls, titles, durations, timestamps) ==
    [ts : timestamps, url : urls, title : titles, durationSec : durations]

\* Short sessions over the three ordinary URLs with every duration.
MainSessions == SeqsUpTo(EventSet(MainUrls, {<<>>}, Durations, {100}), MaxEvents)

\* Short sessions over every URL shape.
OddSessions == SeqsUpTo(EventSet(Urls, {<<>>}, {1}, {100}), MaxEvents - 1)

\* Short sessions with equal and different timestamps, with and without titles.
TimedSessions ==
    SeqsUpTo(EventSet({<<"https://", "a.com", "/x">>, <<"https://", "b.org">>},
                      Titles, {1}, Timestamps), MaxEvents)

\* Sessions that visit more sites than create_workspaces_from_domains keeps:
\* one event on each of DefaultMaxWorkspaces + 1 sites, then possibly one more
\* event on one of them.
SiteTokens == <<"s1.io", "s2.io", "s3.io", "s4.io", "s5.io", "s6.io">>

PageTokens == <<"/p1", "/p2", "/p3", "/p4", "/p5", "/p6">>

WideLen == DefaultMaxWorkspaces + 1

WideDurations == {1, 2}

WideEvent(i, site, page, d) ==
    [ts |-> 100 * i, url |-> <<"https://", SiteTokens[site], PageTokens[page]>>,
     title |-> <<>>, durationSec |-> d]

Revisited(s, again) ==
    IF again = 0 THEN s ELSE Append(s, [s[again] EXCEPT !.ts = 100 * (WideLen + 1)])

ManySites ==
    { Revisited([i \in 1..WideLen |-> WideEvent(i, i, 1, d[i])], again) :
          d \in [1..WideLen -> WideDurations], again \in 0..WideLen }

\* Sessions that visit more pages of one site than get_top_urls keeps.
ManyPages ==
    { Revisited([i \in 1..WideLen |-> WideEvent(i, 1, i, d[i])], again) :
          d \in [1..WideLen -> WideDurations], again \in 0..WideLen }

Sessions == MainSessions \cup OddSessions \cup TimedSessions \cup ManySites \cup ManyPages

NoResult == [kind |-> "none"]

NoCandidate == [absent |-> TRUE]

NoLoop == [max |-> 0, iteration |-> 0, registry |-> FALSE, tool_rounds |-> 0,
           conversation |-> <<>>]

(***************************************************************************)
(* Calls of analyzeSession, and of the two aggregation functions in the    *)
(* order their callers use them.                                           *)
(***************************************************************************)
InitCall(o, g, evs, mw) ==
    /\ op = o
    /\ goal = g
    /\ events = evs
    /\ given = evs
    /\ max_workspaces = mw
    /\ pc = "called"
    /\ result = NoResult
    /\ domain_data = <<>>
    /\ prev = NoResult
    /\ candidate = NoCandidate
    /\ env = [available |-> FALSE, use_gemini |-> FALSE, api_key |-> FALSE]
    /\ requests = 0
    /\ sent = <<>>
    /\ service = "unused"
    /\ loop = NoLoop

InitBasic ==
    \/ \E g \in Goals, evs \in Sessions :
          InitCall("analyzeSession", g, evs, DefaultMaxWorkspaces)
    \/ \E evs \in MainSessions \cup OddSessions, mw \in 0..MaxArg :
          InitCall("create_workspaces_from_domains", <<>>, evs, mw)
    \/ \E evs \in TimedSessions \cup OddSessions :
          InitCall("get_last_stop", <<>>, evs, DefaultMaxWorkspaces)

\* analyzeSession(goal, {"events": events}) from entry to return.
AnalyzeSessionCall ==
    /\ pc = "called"
    /\ op = "analyzeSession"
    /\ result' = [kind |-> "summary", value |-> analyzeSession(goal, events)]
    /\ domain_data' = IF events = <<>> THEN domain_data ELSE group_events_by_domain(events)
    /\ events' = IF events = <<>> THEN events ELSE EventsAfterSorted(events)
    /\ pc' = "returned"
    /\ UNCHANGED <<op, goal, given, max_workspaces, prev, gemini_vars>>

\* domain_data = group_events_by_domain(events)
GroupEventsCall ==
    /\ pc = "called"
    /\ op = "create_workspaces_from_domains"
    /\ domain_data' = group_events_by_domain(events)
    /\ pc' = "grouped"
    /\ UNCHANGED <<op, goal, events, given, max_workspaces, result, prev, gemini_vars>>

\* create_workspaces_from_domains(domain_data, max_workspaces)
CreateWorkspacesCall ==
    /\ pc = "grouped"
    /\ op = "create_workspaces_from_domains"
    /\ result' = [kind |-> "workspaces",
                  value |-> create_workspaces_from_domains(domain_data, max_workspaces)]
    /\ pc' = "returned"
    /\ UNCHANGED <<op, goal, events, given, max_workspaces, domain_data, prev, gemini_vars>>

\* get_last_stop(events)
GetLastStopCall ==
    /\ pc = "called"
    /\ op = "get_last_stop"
    /\ result' = [kind |-> "last_stop", value |-> get_last_stop(events)]
    /\ events' = IF events = <<>> THEN events ELSE EventsAfterSorted(events)
    /\ pc' = "returned"
    /\ UNCHANGED <<op, goal, given, max_workspaces, domain_data, prev, gemini_vars>>

NextBasic == AnalyzeSessionCall \/ GroupEventsCall \/ CreateWorkspacesCall \/ GetLastStopCall

SpecBasic == InitBasic /\ [][NextBasic]_vars

(***************************************************************************)
(* validate_output and normalize_ai_fields (gemini_analyzer.py).  An       *)
(* enrichment object is a record that may lack keys.  Its prose fields     *)
(* (aiRecap, resumeSummary) are strings of single characters, "w" standing *)
(* for any character that is neither white space nor '.', '?' or '!'.      *)
(***************************************************************************)
Has(rec, k) == k \in DOMAIN rec

SetKey(rec, k, v) == [x \in DOMAIN rec \cup {k} |-> IF x = k THEN v ELSE rec[x]]

DropKeys(rec, keys) == [x \in DOMAIN rec \ keys |-> rec[x]]

required_fields ==
    <<"goalInferred", "workspaces", "lastStop", "resumeSummary", "nextActions",
      "pendingDecisions", "aiRecap", "aiActions", "aiConfidenceScore",
      "aiConfidenceLabel">>

Accepted == [ok |-> TRUE]

Rejected(message, what) == [ok |-> FALSE, error |-> message, arg |-> what]

\* len([s for s in text.replace("?", ".").replace("!", ".").split('.') if s.strip()])
RECURSIVE CountFragments(_, _)
CountFragments(text, hasText) ==
    IF text = <<>> THEN (IF hasText THEN 1 ELSE 0)
    ELSE IF Head(text) \in {".", "?", "!"}
         THEN (IF hasText THEN 1 ELSE 0) + CountFragments(Tail(text), FALSE)
         ELSE CountFragments(Tail(text), hasText \/ Head(text) # " ")

SentenceCountPeriodsOnly(text) ==
    CountFragments([i \in 1..Len(text) |-> IF text[i] \in {"?", "!"} THEN "w" ELSE text[i]],
                   FALSE)

SentenceCount(text) == CountFragments(text, FALSE)

\* domain and domain in action
Mentions(action, domain) ==
    /\ domain # <<>>
    /\ \E i \in 1..(Len(action) - Len(domain) + 1) :
           SubSeq(action, i, i + Len(domain) - 1) = domain

InputDomains(evs) ==
    {extract_domain(evs[i].url) : i \in {j \in 1..Len(evs) : evs[j].url # <<>>}}

InputUrls(evs) == {evs[i].url : i \in 1..Len(evs)}

MissingFields(output) == {i \in 1..Len(required_fields) : ~Has(output, required_fields[i])}

FirstOf(S) == CHOOSE i \in S : \A j \in S : i <= j

BadWorkspaces(ws) ==
    {i \in 1..Len(ws) : ~({"label", "timeSec", "topUrls"} \subseteq DOMAIN ws[i])}

UnmentioningUnlessAnyMentions(actions, evs) ==
    IF \E i \in 1..Len(actions) : \E d \in InputDomains(evs) : Mentions(actions[i], d)
    THEN {} ELSE 1..Len(actions)

UnmentioningActions(actions, evs) ==
    {i \in 1..Len(actions) : ~\E d \in InputDomains(evs) : Mentions(actions[i], d)}

UrlAllowedUnchecked(url, input_urls) == TRUE

\* not (url and url not in input_urls)
UrlAllowed(url, input_urls) == url = <<>> \/ url \in input_urls

LastStopUrl(output) == IF Has(output.lastStop, "url") THEN output.lastStop.url ELSE <<>>

\* The places <<i, j>> of the workspace URLs that are not allowed, in the order
\* of the loops over workspaces and topUrls.
BadTopUrls(ws, input_urls) ==
    {p \in UNION {{<<i, j>> : j \in 1..Len(ws[i].topUrls)} : i \in 1..Len(ws)} :
        ~UrlAllowed(ws[p[1]].topUrls[p[2]], input_urls)}

FirstPlace(P) ==
    CHOOSE p \in P : \A q \in P : p[1] < q[1] \/ (p[1] = q[1] /\ p[2] <= q[2])

TooManyPendingOffByOne(pending_decisions) == Len(pending_decisions) > 4

TooManyPendingUnchecked(pending_decisions) == FALSE

TooManyPending(pending_decisions) == Len(pending_decisions) > 3

validate_output(output, evs) ==
    IF MissingFields(output) # {}
    THEN Rejected("Missing required field", required_fields[FirstOf(MissingFields(output))])
    ELSE IF Len(output.workspaces) > 5
    THEN Rejected("Too many workspaces", Len(output.workspaces))
    ELSE IF BadWorkspaces(output.workspaces) # {}
    THEN Rejected("Invalid workspace structure",
                  output.workspaces[FirstOf(BadWorkspaces(output.workspaces))])
    ELSE IF Len(output.nextActions) > 5
    THEN Rejected("Too many nextActions", Len(output.nextActions))
    ELSE IF TooManyPending(output.pendingDecisions)
    THEN Rejected("Too many pendingDecisions", Len(output.pendingDecisions))
    ELSE IF SentenceCount(output.aiRecap) < 2 \/ SentenceCount(output.aiRecap) > 3
    THEN Rejected("aiRecap must be 2-3 sentences", <<>>)
    ELSE IF Len(output.aiActions) # 3
    THEN Rejected("aiActions must have exactly 3 items", <<>>)
    ELSE IF UnmentioningActions(output.aiActions, evs) # {}
    THEN Rejected("aiAction does not mention a known domain",
                  output.aiActions[FirstOf(UnmentioningActions(output.aiActions, evs))])
    ELSE IF ~UrlAllowed(LastStopUrl(output), InputUrls(evs))
    THEN Rejected("lastStop.url not found in input events", LastStopUrl(output))
    ELSE IF BadTopUrls(output.workspaces, InputUrls(evs)) # {}
    THEN LET p == FirstPlace(BadTopUrls(output.workspaces, InputUrls(evs)))
         IN  Rejected("Workspace URL not found in input events",
                      output.workspaces[p[1]].topUrls[p[2]])
    ELSE Accepted

Truthy(rec, k) == Has(rec, k) /\ rec[k] # <<>>

normalize_ai_fields_uncut(output) ==
    LET o1 == IF ~Has(output, "aiRecap") /\ Truthy(output, "resumeSummary")
              THEN SetKey(output, "aiRecap", output.resumeSummary) ELSE output
        o2 == IF ~Has(o1, "aiActions") /\ Truthy(o1, "nextActions")
              THEN SetKey(o1, "aiActions", o1.nextActions) ELSE o1
        o3 == IF ~Has(o2, "resumeSummary") /\ Truthy(o2, "aiRecap")
              THEN SetKey(o2, "resumeSummary", o2.aiRecap) ELSE o2
        o4 == IF ~Has(o3, "nextActions") /\ Truthy(o3, "aiActions")
              THEN SetKey(o3, "nextActions", o3.aiActions) ELSE o3
        o5 == IF ~Has(o4, "aiConfidenceScore") THEN SetKey(o4, "aiConfidenceScore", 0) ELSE o4
    IN  IF ~Has(o5, "aiConfidenceLabel") THEN SetKey(o5, "aiConfidenceLabel", <<"low">>) ELSE o5

normalize_ai_fields(output) ==
    LET o1 == IF ~Has(output, "aiRecap") /\ Truthy(output, "resumeSummary")
              THEN SetKey(output, "aiRecap", output.resumeSummary) ELSE output
        o2 == IF ~Has(o1, "aiActions") /\ Truthy(o1, "nextActions")
              THEN SetKey(o1, "aiActions", Take(o1.nextActions, 3)) ELSE o1
        o3 == IF ~Has(o2, "resumeSummary") /\ Truthy(o2, "aiRecap")
              THEN SetKey(o2, "resumeSummary", o2.aiRecap) ELSE o2
        o4 == IF ~Has(o3, "nextActions") /\ Truthy(o3, "aiActions")
              THEN SetKey(o3, "nextActions", o3.aiActions) ELSE o3
        o5 == IF ~Has(o4, "aiConfidenceScore") THEN SetKey(o4, "aiConfidenceScore", 0) ELSE o4
    IN  IF ~Has(o5, "aiConfidenceLabel") THEN SetKey(o5, "aiConfidenceLabel", <<"low">>) ELSE o5

(***************************************************************************)
(* Enrichment objects handed to validate_output: every combination of a    *)
(* few values of each field, built around the URLs of the events.          *)
(***************************************************************************)
ForeignUrl == <<"https://", "not-in-input.com">>

ValidateEvents ==
    { [ts |-> 100, url |-> <<"https://", "a.com", "/x">>, title |-> <<>>, durationSec |-> 1],
      [ts |-> 200, url |-> <<"https://", "b.org">>, title |-> <<"Two Sum">>, durationSec |-> 2],
      [ts |-> 200, url |-> <<>>, title |-> <<>>, durationSec |-> 1],
      [ts |-> 200, url |-> <<"www.">>, title |-> <<>>, durationSec |-> 1] }

ValidateSessions == SeqsUpTo(ValidateEvents, MaxEvents - 2)

KnownUrl(evs) == IF evs = <<>> THEN ForeignUrl ELSE evs[1].url

KnownDomain(evs) == IF evs = <<>> THEN <<"a.com">> ELSE extract_domain(evs[1].url)

Workspace(topUrls, t) == [label |-> <<"Coding">>, timeSec |-> t, topUrls |-> topUrls]

TopUrlsOptions(evs) ==
    { <<>>, <<KnownUrl(evs)>>, <<ForeignUrl>>, << <<>> >>, <<KnownUrl(evs), ForeignUrl>>,
      [i \in 1..(MaxTopUrls + 1) |-> KnownUrl(evs)] }

WorkspacesOptions(evs) ==
    { <<>>,
      <<Workspace(<<KnownUrl(evs)>>, 1000)>>,
      <<Workspace(<<KnownUrl(evs)>>, 1), Workspace(<<ForeignUrl>>, 1)>>,
      [i \in 1..(DefaultMaxWorkspaces + 1) |-> Workspace(<<KnownUrl(evs)>>, 1)],
      <<[label |-> <<"Coding">>, topUrls |-> <<ForeignUrl>>]>> }
    \cup { <<Workspace(tu, 1)>> : tu \in TopUrlsOptions(evs) }

GoodAction(evs) == <<"Open ">> \o KnownDomain(evs)

ActionLists(evs) ==
    { [i \in 1..3 |-> GoodAction(evs)],
      [i \in 1..2 |-> GoodAction(evs)],
      <<GoodAction(evs), <<"Take a break">>, GoodAction(evs)>>,
      <<GoodAction(evs), GoodAction(evs), <<"Open ", "A.com">> >> }

NextActionLists(evs) == { [i \in 1..n |-> GoodAction(evs)] : n \in {2, 6} }

PendingLists == { [i \in 1..n |-> <<"Which offer?">>] : n \in {0, 4} }

Recaps ==
    { <<"w", ".">>,
      <<"w", ".", " ", "w", "!">>,
      <<"w", "?", " ", "w", ".", "w", " ", ".", "w">> }

LastStops(evs) ==
    { [label |-> <<"Two Sum">>, url |-> KnownUrl(evs)],
      [label |-> <<"Two Sum">>, url |-> ForeignUrl],
      [label |-> <<"Two Sum">>, url |-> <<>>],
      [label |-> <<"Two Sum">>] }

MissingOptions ==
    { {}, {"goalInferred"}, {"aiRecap"}, {"workspaces", "lastStop"},
      {"aiConfidenceScore", "aiConfidenceLabel"} }

Enrichment(ws, ls, rs, na, pd, recap, acts) ==
    [goalInferred |-> <<"Prepare for interview">>, workspaces |-> ws, lastStop |-> ls,
     resumeSummary |-> rs, nextActions |-> na, pendingDecisions |-> pd,
     aiRecap |-> recap, aiActions |-> acts, aiConfidenceScore |-> 1,
     aiConfidenceLabel |-> <<"high">>]

Candidates(evs) ==
    { DropKeys(Enrichment(ws, ls, <<"w", ".">>, na, pd, recap, acts), missing) :
        ws \in WorkspacesOptions(evs), ls \in LastStops(evs), na \in NextActionLists(evs),
        pd \in PendingLists, recap \in Recaps, acts \in ActionLists(evs),
        missing \in MissingOptions }

InitValidate ==
    /\ op = "validate_output"
    /\ goal = <<>>
    /\ \E evs \in ValidateSessions :
          /\ events = evs
          /\ given = evs
          /\ candidate \in Candidates(evs)
    /\ max_workspaces = DefaultMaxWorkspaces
    /\ pc = "called"
    /\ result = NoResult
    /\ domain_data = <<>>
    /\ prev = NoResult
    /\ env = [available |-> FALSE, use_gemini |-> FALSE, api_key |-> FALSE]
    /\ requests = 0
    /\ sent = <<>>
    /\ service = "unused"
    /\ loop = NoLoop

\* validate_output(candidate, events): returns True or raises ValueError.
ValidateOutputCall ==
    /\ pc = "called"
    /\ op = "validate_output"
    /\ result' = LET v == validate_output(candidate, events)
                 IN  IF v.ok THEN [kind |-> "valid"]
                     ELSE [kind |-> "raised", exc |-> "ValueError",
                           error |-> v.error, arg |-> v.arg]
    /\ pc' = "returned"
    /\ UNCHANGED <<op, goal, events, given, max_workspaces, domain_data, prev, gemini_vars>>

NextValidate == ValidateOutputCall

SpecValidate == InitValidate /\ [][NextValidate]_vars

(***************************************************************************)
(* analyzeSessionWithGemini and call_gemini.  The call is suspended at     *)
(* each generate_content request; the external service then answers with   *)
(* an API error, an empty response, text that is not JSON, JSON that is    *)
(* not an object, or an enrichment object.                                 *)
(***************************************************************************)
ApiErrors == {"authentication", "quota", "server", "other"}

\* call_gemini's handler for exceptions that are not ValueError.
ConvertedError(kind) == IF kind = "authentication" THEN "ValueError" ELSE "RuntimeError"

GeminiWorkspaces(evs) ==
    { <<Workspace(<<KnownUrl(evs)>>, 1)>>,
      <<Workspace(<<KnownUrl(evs)>>, 1000)>>,
      <<Workspace(<<ForeignUrl>>, 1)>>,
      <<Workspace(<< <<>> >>, 1)>> }

GeminiObjects(evs) ==
    { DropKeys(Enrichment(ws, ls, rs, na, <<>>, recap, acts), missing) :
        ws \in GeminiWorkspaces(evs),
        ls \in {[label |-> <<"Two Sum">>, url |-> KnownUrl(evs)],
                [label |-> <<"Two Sum">>, url |-> ForeignUrl]},
        rs \in {<<"w", ".">>, <<"w", ".", " ", "w", "!">>},
        na \in {[i \in 1..n |-> GoodAction(evs)] : n \in {2, 3}},
        recap \in {<<"w", ".">>, <<"w", ".", " ", "w", "!">>},
        acts \in {[i \in 1..n |-> GoodAction(evs)] : n \in {2, 3}},
        missing \in {{}, {"goalInferred"},
                     {"aiRecap", "aiActions", "aiConfidenceScore", "aiConfidenceLabel"}} }

Responses(evs) ==
    [kind : {"api_error"}, error : ApiErrors]
    \cup [kind : {"empty", "unparseable", "non_object"}]
    \cup [kind : {"object"}, value : GeminiObjects(evs)]

GeminiSessions == SeqsUpTo(ValidateEvents, MaxEvents - 1)

\* eventsWithDuration: a dict that may lack the "events" key.
Payloads == [has_events : {TRUE}, events : GeminiSessions] \cup {[has_events |-> FALSE]}

\* events = eventsWithDuration.get("events", [])
GetEvents(payload) == IF payload.has_events THEN payload.events ELSE <<>>

InitGemini ==
    /\ op \in {"analyzeSessionWithGemini", "analyzeSession"}
    /\ goal \in Goals
    /\ \E payload \in Payloads : events = GetEvents(payload)
    /\ given = events
    /\ max_workspaces = DefaultMaxWorkspaces
    /\ pc = "called"
    /\ result = NoResult
    /\ domain_data = <<>>
    /\ prev = NoResult
    /\ candidate = NoCandidate
    /\ env \in [available : BOOLEAN, use_gemini : BOOLEAN, api_key : BOOLEAN]
    /\ op = "analyzeSession" => env = [available |-> FALSE, use_gemini |-> FALSE, api_key |-> FALSE]
    /\ requests = 0
    /\ sent = <<>>
    /\ service = "unused"
    /\ loop = NoLoop

CaughtValueErrorOnly(exc) == exc = "ValueError"

\* except Exception as e: every exception the enrichment raises is caught.
Caught(exc) == TRUE

\* The try block of analyzeSessionWithGemini ends with exception exc: the
\* handler prints a warning and the function returns analyzeSession(...).
\* A direct call of call_gemini raises it.
Fallback(exc, what) ==
    /\ result' = IF op = "analyzeSessionWithGemini" /\ Caught(exc)
                 THEN [kind |-> "summary", value |-> analyzeSession(goal, events)]
                 ELSE [kind |-> "raised", exc |-> exc]
    /\ service' = what
    /\ pc' = "returned"

EnrichmentUnvalidated(parsed, evs) == [value |-> normalize_ai_fields(parsed), ok |-> TRUE]

\* gemini_result = normalize_ai_fields(gemini_result); validate_output(gemini_result, events)
EnrichmentOutcome(parsed, evs) ==
    LET normalized == normalize_ai_fields(parsed)
    IN  [value |-> normalized, ok |-> validate_output(normalized, evs).ok]

\* call_gemini returned parsed JSON: a direct call returns it;
\* analyzeSessionWithGemini normalizes and validates it, returns it or falls back.
Finish(response) ==
    IF op = "call_gemini"
    THEN /\ result' = [kind |-> "json", parsed |-> response]
         /\ service' = "answered"
         /\ pc' = "returned"
         /\ UNCHANGED candidate
    ELSE IF response.kind = "non_object"
    THEN Fallback("TypeError", "non_object") /\ UNCHANGED candidate
    ELSE LET outcome == EnrichmentOutcome(response.value, events)
         IN  /\ candidate' = outcome.value
             /\ IF outcome.ok
                THEN /\ result' = [kind |-> "summary", value |-> outcome.value]
                     /\ service' = "accepted"
                     /\ pc' = "returned"
                ELSE Fallback("ValueError", "invalid")

\* full_prompt, and retry_prompt = "Output only valid JSON.\n\n" + full_prompt
FullPrompt == <<"full_prompt">>

RetryPrompt == <<"Output only valid JSON.\n\n">> \o FullPrompt

\* generate_content(prompt): the prompt goes out, the answer is awaited
Send(prompt) == Append(sent, [prompt |-> prompt, answer |-> "pending"])

\* the outstanding request got an answer of this kind
Answered(kind) == [sent EXCEPT ![Len(sent)].answer = kind]

RetryAlways == TRUE

\* retry: bool = True, which analyzeSessionWithGemini leaves at its default
Retry == IF "retry" \in DOMAIN env THEN env.retry ELSE TRUE

\* analyzeSessionWithGemini, or call_gemini called directly, from entry to the
\* first generate_content request, or to the return when none is sent.
GeminiStart ==
    /\ pc = "called"
    /\ op \in {"analyzeSessionWithGemini", "call_gemini"}
    /\ IF op = "analyzeSessionWithGemini" /\ events = <<>>
       THEN /\ result' = [kind |-> "summary", value |-> analyzeSession(goal, events)]
            /\ pc' = "returned"
            /\ UNCHANGED <<domain_data, requests, service, sent>>
       ELSE /\ domain_data' = IF op = "analyzeSessionWithGemini"
                              THEN group_events_by_domain(events) ELSE domain_data
            /\ IF op = "analyzeSessionWithGemini" /\ ~(env.use_gemini /\ env.available)
               THEN /\ result' = [kind |-> "summary", value |-> analyzeSession(goal, events)]
                    /\ pc' = "returned"
                    /\ service' = "disabled"
                    /\ UNCHANGED <<requests, sent>>
               ELSE IF ~env.available
               THEN Fallback("ImportError", "unavailable") /\ UNCHANGED <<requests, sent>>
               ELSE IF ~env.api_key
               THEN Fallback("ValueError", "no_key") /\ UNCHANGED <<requests, sent>>
               ELSE \/ Fallback("RuntimeError", "setup_error") /\ UNCHANGED <<requests, sent>>
                    \/ /\ requests' = 1
                       /\ sent' = Send(FullPrompt)
                       /\ pc' = "requesting"
                       /\ UNCHANGED <<result, service>>
    /\ UNCHANGED <<op, goal, events, given, max_workspaces, prev, candidate, env, loop>>

\* The answer to the first request (lines 166-203).
GeminiRespond ==
    /\ pc = "requesting"
    /\ op \in {"analyzeSessionWithGemini", "call_gemini"}
    /\ \E response \in Responses(events) :
          CASE response.kind = "api_error" ->
                   /\ Fallback(ConvertedError(response.error), "api_error")
                   /\ sent' = Answered(response.kind)
                   /\ UNCHANGED <<candidate, requests>>
            [] response.kind = "empty" ->
                   /\ Fallback("ValueError", "empty")
                   /\ sent' = Answered(response.kind)
                   /\ UNCHANGED <<candidate, requests>>
            [] response.kind = "unparseable" ->
                   IF Retry
                   THEN /\ requests' = requests + 1
                        /\ sent' = Append(Answered(response.kind),
                                          [prompt |-> RetryPrompt, answer |-> "pending"])
                        /\ pc' = "retrying"
                        /\ UNCHANGED <<candidate, result, service>>
                   ELSE /\ Fallback("ValueError", "unparseable")
                        /\ sent' = Answered(response.kind)
                        /\ UNCHANGED <<candidate, requests>>
            [] OTHER -> /\ Finish(response)
                        /\ sent' = Answered(response.kind)
                        /\ UNCHANGED requests
    /\ UNCHANGED <<op, goal, events, given, max_workspaces, domain_data, prev, env, loop>>

\* The answer to the retry request (lines 190-201).
GeminiRetryRespond ==
    /\ pc = "retrying"
    /\ \E response \in Responses(events) :
          /\ sent' = Answered(response.kind)
          /\ CASE response.kind = "api_error" ->
                   /\ Fallback(ConvertedError(response.error), "api_error")
                   /\ UNCHANGED candidate
               [] response.kind = "empty" ->
                   /\ Fallback("ValueError", "empty")
                   /\ UNCHANGED candidate
               [] response.kind = "unparseable" ->
                   /\ Fallback("ValueError", "unparseable_twice")
                   /\ UNCHANGED candidate
               [] OTHER -> Finish(response)
    /\ UNCHANGED <<op, goal, events, given, max_workspaces, domain_data, prev, env, requests,
                   loop>>

NextGemini == GeminiStart \/ GeminiRespond \/ GeminiRetryRespond \/ AnalyzeSessionCall

SpecGemini == InitGemini /\ [][NextGemini]_vars

\* call_gemini called directly, with retry enabled or not.
InitCallGemini ==
    /\ op = "call_gemini"
    /\ goal = <<>>
    /\ \E e \in ValidateEvents : events = <<e>>
    /\ given = events
    /\ max_workspaces = DefaultMaxWorkspaces
    /\ pc = "called"
    /\ result = NoResult
    /\ domain_data = <<>>
    /\ prev = NoResult
    /\ candidate = NoCandidate
    /\ env \in [available : BOOLEAN, use_gemini : {TRUE}, api_key : BOOLEAN, retry : BOOLEAN]
    /\ requests = 0
    /\ sent = <<>>
    /\ service = "unused"
    /\ loop = NoLoop

NextCallGemini == GeminiStart \/ GeminiRespond \/ GeminiRetryRespond

SpecCallGemini == InitCallGemini /\ [][NextCallGemini]_vars

(***************************************************************************)
(* Direct calls of normalize_ai_fields.  The function assigns into the     *)
(* dict it is given and returns that dict, so candidate is the caller's    *)
(* object before and after the call; prev remembers the argument as it was *)
(* when the call started and how many calls were made on the object.       *)
(***************************************************************************)
MaxNormalizeCalls == 2

NormalizeKeys ==
    {"resumeSummary", "nextActions", "aiRecap", "aiActions", "aiConfidenceScore",
     "aiConfidenceLabel"}

NormalizeActions(n) == [i \in 1..n |-> <<"Open site ", ToString(i)>>]

NormalizeInputs ==
    { DropKeys([goalInferred |-> <<"Prepare for interview">>, resumeSummary |-> rs,
                nextActions |-> na, aiRecap |-> recap, aiActions |-> acts,
                aiConfidenceScore |-> 1, aiConfidenceLabel |-> <<"high">>], missing) :
        rs \in {<<>>, <<"w", ".">>},
        na \in {<<>>, NormalizeActions(2), NormalizeActions(4)},
        recap \in {<<>>, <<"v", ".", " ", "v", "!">>},
        acts \in {<<>>, <<"Review a.com", "Review b.org", "Review c.net">>},
        missing \in SUBSET NormalizeKeys }

InitNormalize ==
    /\ op = "normalize_ai_fields"
    /\ goal = <<>>
    /\ events = <<>>
    /\ given = events
    /\ max_workspaces = DefaultMaxWorkspaces
    /\ pc = "called"
    /\ result = NoResult
    /\ domain_data = <<>>
    /\ prev = NoResult
    /\ candidate \in NormalizeInputs
    /\ env = [available |-> FALSE, use_gemini |-> FALSE, api_key |-> FALSE]
    /\ requests = 0
    /\ sent = <<>>
    /\ service = "unused"
    /\ loop = NoLoop

Calls == IF prev.kind = "argument" THEN prev.calls ELSE 0

\* output = normalize_ai_fields(output)
NormalizeAiFieldsCall ==
    /\ op = "normalize_ai_fields"
    /\ pc = "called"
    /\ candidate' = normalize_ai_fields(candidate)
    /\ result' = [kind |-> "object", value |-> candidate']
    /\ prev' = [kind |-> "argument", value |-> candidate, calls |-> Calls + 1]
    /\ pc' = "returned"
    /\ UNCHANGED <<op, goal, events, given, max_workspaces, domain_data, env, requests,
                   service, loop, sent>>

\* the caller passes the returned object to normalize_ai_fields again
NormalizeAgain ==
    /\ op = "normalize_ai_fields"
    /\ pc = "returned"
    /\ Calls < MaxNormalizeCalls
    /\ pc' = "called"
    /\ result' = NoResult
    /\ UNCHANGED <<op, goal, events, given, max_workspaces, domain_data, prev, gemini_vars>>

NextNormalize == NormalizeAiFieldsCall \/ NormalizeAgain

SpecNormalize == InitNormalize /\ [][NextNormalize]_vars

(***************************************************************************)
(* JSON values as the planner code sees them.  A value carries its Python  *)
(* type; a str is a sequence of tokens, a dict a function from keys to     *)
(* values.  A str that the code slices is written one character per token. *)
(***************************************************************************)
PyNull == [t |-> "null"]

PyInt(n) == [t |-> "int", n |-> n]

PyStr(s) == [t |-> "str", s |-> s]

PyList(items) == [t |-> "list", items |-> items]

PyDict(d) == [t |-> "dict", d |-> d]

\* isinstance(v, dict), isinstance(v, list)
IsDict(v) == v.t = "dict"

IsList(v) == v.t = "list"

\* k in d
HasKey(v, k) == k \in DOMAIN v.d

\* d.get(k, default)
DictGet(v, k, default) == IF HasKey(v, k) THEN v.d[k] ELSE default

\* d.get(k): None when the key is missing
DictGetOrNone(v, k) == DictGet(v, k, PyNull)

RECURSIVE Repr(_)
\* repr(v), the text str() gives for the items of a list
Repr(v) ==
    CASE v.t = "str"  -> <<"'">> \o v.s \o <<"'">>
      [] v.t = "int"  -> <<ToString(v.n)>>
      [] v.t = "null" -> <<"None">>
      [] v.t = "list" ->
             LET inner[i \in 0..Len(v.items)] ==
                     IF i = 0 THEN <<>>
                     ELSE inner[i - 1] \o (IF i > 1 THEN <<", ">> ELSE <<>>) \o Repr(v.items[i])
             IN  <<"[">> \o inner[Len(v.items)] \o <<"]">>

\* str(v)
str(v) == IF v.t = "str" THEN v ELSE PyStr(Repr(v))

\* v[:n] raises TypeError unless v is a list or a str
Subscriptable(v) == v.t \in {"list", "str"}

\* v[:n] for a list or a str
Slice(v, n) == IF v.t = "list" THEN PyList(Take(v.items, n)) ELSE PyStr(Take(v.s, n))

(***************************************************************************)
(* validate_planner_output (agent_planner.py).                             *)
(***************************************************************************)
MaxTasks == 10

MaxOrder == 10

MaxSuggestions == 5

\* if isinstance(task, dict) and "id" in task and "title" in task
IsValidTask(task) == IsDict(task) /\ HasKey(task, "id") /\ HasKey(task, "title")

\* valid_task = {...}
valid_task(task) ==
    PyDict([id            |-> str(DictGet(task, "id", PyStr(<<>>))),
            title         |-> str(DictGet(task, "title", PyStr(<<>>))),
            priority      |-> DictGet(task, "priority", PyStr(<<"medium">>)),
            urgency       |-> DictGet(task, "urgency", PyStr(<<"soon">>)),
            estimatedTime |-> str(DictGet(task, "estimatedTime", PyStr(<<"30 minutes">>))),
            dependencies  |-> IF IsList(DictGetOrNone(task, "dependencies"))
                              THEN DictGet(task, "dependencies", PyList(<<>>))
                              ELSE PyList(<<>>),
            reason        |-> str(DictGet(task, "reason", PyStr(<<>>))),
            context       |-> str(DictGet(task, "context", PyStr(<<>>)))])

RECURSIVE ValidTasksNewestFirst(_)
ValidTasksNewestFirst(tasks) ==
    IF tasks = <<>> THEN <<>>
    ELSE ValidTasksNewestFirst(Tail(tasks))
         \o (IF IsValidTask(Head(tasks)) THEN <<valid_task(Head(tasks))>> ELSE <<>>)

RECURSIVE valid_tasks(_)
\* for task in result["prioritizedTasks"]: ... valid_tasks.append(valid_task)
valid_tasks(tasks) ==
    IF tasks = <<>> THEN <<>>
    ELSE (IF IsValidTask(Head(tasks)) THEN <<valid_task(Head(tasks))>> ELSE <<>>)
         \o valid_tasks(Tail(tasks))

StrListUncut(v, n) ==
    IF IsList(v)
    THEN PyList([i \in 1..Len(v.items) |-> str(v.items[i])])
    ELSE PyList(<<>>)

\* [str(s) for s in v[:5]] if isinstance(v, list) else []
StrList(v, n) ==
    IF IsList(v)
    THEN PyList([i \in 1..Len(Take(v.items, n)) |-> str(v.items[i])])
    ELSE PyList(<<>>)

Raises(exc) == [raises |-> TRUE, exc |-> exc]

Returns(value) == [raises |-> FALSE, value |-> value]

validate_planner_output(output) ==
    IF ~IsDict(output) THEN Raises("ValueError")
    ELSE LET prioritized == DictGet(output, "prioritizedTasks", PyList(<<>>))
             task_order  == DictGet(output, "taskOrder", PyList(<<>>))
             tasks       == IF IsList(prioritized) THEN prioritized.items ELSE <<>>
         IN  IF ~Subscriptable(task_order) THEN Raises("TypeError")
             ELSE Returns(PyDict(
                    [prioritizedTasks |-> PyList(Take(valid_tasks(tasks), MaxTasks)),
                     taskOrder        |-> Slice(task_order, MaxOrder),
                     suggestions      |-> StrList(DictGet(output, "suggestions", PyList(<<>>)),
                                                  MaxSuggestions),
                     insights         |-> StrList(DictGet(output, "insights", PyList(<<>>)),
                                                  MaxSuggestions)]))

(***************************************************************************)
(* Planner outputs handed to validate_planner_output: non-dicts, and dicts *)
(* whose four fields are missing, of the wrong type, or lists shorter and  *)
(* longer than the limits.                                                 *)
(***************************************************************************)
TaskId(i) == PyStr(<<"task_", ToString(i)>>)

NumberedTask(i) == PyDict([id |-> TaskId(i), title |-> PyStr(<<"Review", " notes">>)])

FullTask ==
    PyDict([id |-> TaskId(1), title |-> PyStr(<<"Finish", " resume">>),
            priority |-> PyStr(<<"high">>), urgency |-> PyStr(<<"urgent">>),
            estimatedTime |-> PyStr(<<"1 hour">>), dependencies |-> PyList(<<TaskId(2)>>),
            description |-> PyStr(<<"Update the resume">>), reason |-> PyStr(<<"Deadline">>),
            context |-> PyStr(<<"Meeting at 3pm">>)])

OddTask ==
    PyDict([id |-> PyInt(7), title |-> PyNull,
            priority |-> PyStr(<<"critical">>), urgency |-> PyStr(<<"asap">>),
            estimatedTime |-> PyInt(45), dependencies |-> PyStr(<<"task_", "2">>),
            description |-> PyStr(<<"Update the resume">>), reason |-> PyNull,
            context |-> PyList(<<PyStr(<<"a">>), PyInt(1)>>)])

UntypedTask ==
    PyDict([id |-> TaskId(3), title |-> PyStr(<<"Decide:", " offer">>),
            priority |-> PyNull, urgency |-> PyInt(1), dependencies |-> PyNull])

TaskEntries ==
    { FullTask, NumberedTask(2), OddTask, UntypedTask,
      PyDict([title |-> PyStr(<<"No id">>)]),
      PyDict([id |-> TaskId(4)]),
      PyStr(<<"task_", "5">>),
      PyList(<<PyStr(<<"id">>), PyStr(<<"title">>)>>) }

\* n numbered tasks with a string entry after the k-th of them (no such entry when k > n)
LongTasks(n, k) ==
    [i \in 1..(IF k <= n THEN n + 1 ELSE n) |->
        IF i <= k THEN NumberedTask(i)
        ELSE IF i = k + 1 /\ k <= n THEN PyStr(<<"not a task">>)
        ELSE NumberedTask(i - 1)]

TaskLists ==
    SeqsUpTo(TaskEntries, MaxShort)
    \cup { LongTasks(n, k) : n \in (MaxTasks - 1)..(MaxTasks + 2), k \in 0..(MaxTasks + 3) }

Absent == "absent"

PrioritizedOptions ==
    [kind : {"value"}, value : {PyList(l) : l \in TaskLists}
                               \cup {PyStr(<<"t">>), PyNull, FullTask}]
    \cup {[kind |-> Absent]}

Letters(n) == [i \in 1..n |-> "t"]

OrderOptions ==
    [kind : {"value"},
     value : { PyList(<<>>), PyList(<<TaskId(2), TaskId(1)>>),
               PyList([i \in 1..(MaxOrder + 2) |-> TaskId(i)]),
               PyList(<<PyInt(1), PyNull>>),
               PyStr(Letters(MaxOrder + 2)), PyNull, PyInt(5) }]
    \cup {[kind |-> Absent]}

Advice(n) ==
    [i \in 1..n |-> IF i = 2 THEN PyInt(2) ELSE IF i = 3 THEN PyNull
                    ELSE IF i = 4 THEN PyList(<<PyStr(<<"x">>)>>)
                    ELSE PyStr(<<"Tip ", ToString(i)>>)]

AdviceOptions ==
    [kind : {"value"},
     value : { PyList(Advice(2)), PyList(Advice(MaxSuggestions + 1)), PyStr(<<"t">>), PyNull }]
    \cup {[kind |-> Absent]}

\* the dict with the given fields, a field of kind Absent left out
PlannerDict(tasks, order, suggestions, insights) ==
    LET fields == [prioritizedTasks |-> tasks, taskOrder |-> order,
                   suggestions |-> suggestions, insights |-> insights]
        present == {k \in DOMAIN fields : fields[k].kind # Absent}
    IN  PyDict([k \in present |-> fields[k].value])

PlannerOutputs ==
    { PlannerDict(tasks, order, suggestions, insights) :
        tasks \in PrioritizedOptions, order \in OrderOptions,
        suggestions \in AdviceOptions, insights \in {a \in AdviceOptions : a.kind = Absent
                                                        \/ a.value.t # "str"} }
    \cup { PyNull, PyInt(5), PyStr(<<"plan">>), PyList(<<FullTask>>) }

InitSanitize ==
    /\ op = "validate_planner_output"
    /\ goal = <<>>
    /\ events = <<>>
    /\ given = <<>>
    /\ max_workspaces = DefaultMaxWorkspaces
    /\ pc = "called"
    /\ result = NoResult
    /\ domain_data = <<>>
    /\ prev = NoResult
    /\ candidate \in PlannerOutputs
    /\ env = [available |-> FALSE, use_gemini |-> FALSE, api_key |-> FALSE]
    /\ requests = 0
    /\ sent = <<>>
    /\ service = "unused"
    /\ loop = NoLoop

\* validate_planner_output(output) from entry to return or raise.
ValidatePlannerOutputCall ==
    /\ pc = "called"
    /\ op = "validate_planner_output"
    /\ result' = LET r == validate_planner_output(candidate)
                 IN  IF r.raises THEN [kind |-> "raised", exc |-> r.exc]
                     ELSE [kind |-> "plan", value |-> r.value]
    /\ pc' = "returned"
    /\ UNCHANGED <<op, goal, events, given, max_workspaces, domain_data, prev, gemini_vars>>

NextSanitize == ValidatePlannerOutputCall

SpecSanitize == InitSanitize /\ [][NextSanitize]_vars

(***************************************************************************)
(* create_basic_task_plan and generate_task_description.  A title is a     *)
(* sequence of tokens; the keywords generate_task_description looks for    *)
(* occur in it only inside single tokens.                                  *)
(***************************************************************************)
MaxPlanActions == 5

MaxPlanDecisions == 3

Keywords ==
    {"resume", "open last stop", "continue in", "workspace", "review", "pages", "tabs",
     "decide:", "complete", "finish"}

\* the tokens titles are built from whose lower-cased text contains keyword k
\* (`k in lower_title`)
TokensContaining(k) ==
    CASE k = "resume"         -> {"Resume", "resume", " resume", "Update the resume"}
      [] k = "open last stop" -> {"Open last stop", "open last stop"}
      [] k = "continue in"    -> {"Continue in", "continue in"}
      [] k = "workspace"      -> {" workspace", "workspace"}
      [] k = "review"         -> {"Review", "review", "Review progress and plan next steps",
                                  "Review a.com", "Review b.org", "Review c.net"}
      [] k = "pages"          -> {" pages", "pages"}
      [] k = "tabs"           -> {" tabs", "tabs"}
      [] k = "decide:"        -> {"Decide: ", "Decide:", "decide:"}
      [] k = "complete"       -> {"Complete", "complete"}
      [] k = "finish"         -> {"Finish", "finish"}

\* the keywords found in title.lower(), token by token
KeywordsOf(tok) == {k \in Keywords : tok \in TokensContaining(k)}

TitleKeywords(title) == UNION {KeywordsOf(title[i]) : i \in 1..Len(title)}

generate_task_description_decide_first(title) ==
    LET found == TitleKeywords(title)
    IN  IF "decide:" \in found
        THEN <<"Make a decision on this item based on the context from your session and your current priorities.">>
        ELSE IF "resume" \in found \/ "open last stop" \in found
        THEN <<"Press the \"Resume Session\" button to reopen the tab or workspace where you left off and continue your work seamlessly.">>
        ELSE IF "continue in" \in found \/ "workspace" \in found
        THEN <<"Press the \"Resume Session\" button or use \"Continue where you left off\" to return to the workspace you were actively using.">>
        ELSE IF "review" \in found /\ "pages" \in found
        THEN <<"Review the most visited pages from your session to identify key resources and information you were working with.">>
        ELSE IF "review" \in found /\ "tabs" \in found
        THEN <<"Go through your recent tabs to see what you were working on and identify any unfinished tasks.">>
        ELSE IF "complete" \in found \/ "finish" \in found
        THEN <<"Complete this task that was started during your session to maintain momentum and avoid losing context.">>
        ELSE <<"Work on this task based on your session activity and current priorities.">>

generate_task_description(title) ==
    LET found == TitleKeywords(title)
    IN  IF "resume" \in found \/ "open last stop" \in found
        THEN <<"Press the \"Resume Session\" button to reopen the tab or workspace where you left off and continue your work seamlessly.">>
        ELSE IF "continue in" \in found \/ "workspace" \in found
        THEN <<"Press the \"Resume Session\" button or use \"Continue where you left off\" to return to the workspace you were actively using.">>
        ELSE IF "review" \in found /\ "pages" \in found
        THEN <<"Review the most visited pages from your session to identify key resources and information you were working with.">>
        ELSE IF "review" \in found /\ "tabs" \in found
        THEN <<"Go through your recent tabs to see what you were working on and identify any unfinished tasks.">>
        ELSE IF "decide:" \in found
        THEN <<"Make a decision on this item based on the context from your session and your current priorities.">>
        ELSE IF "complete" \in found \/ "finish" \in found
        THEN <<"Complete this task that was started during your session to maintain momentum and avoid losing context.">>
        ELSE <<"Work on this task based on your session activity and current priorities.">>

\* the task built from the i-th of nextActions[:5]
ActionTask(i, action) ==
    PyDict([id            |-> PyStr(<<"task_", ToString(i)>>),
            title         |-> action,
            priority      |-> PyStr(<<"medium">>),
            urgency       |-> PyStr(<<"soon">>),
            estimatedTime |-> PyStr(<<"30 minutes">>),
            dependencies  |-> PyList(<<>>),
            description   |-> PyStr(generate_task_description(action.s)),
            reason        |-> PyStr(<<"Suggested from session analysis">>),
            context       |-> PyStr(<<>>)])

DecisionTaskNamedTask(i, decision) ==
    LET title == <<"Decide: ">> \o decision.s
    IN  PyDict([id            |-> PyStr(<<"task_", ToString(i)>>),
                title         |-> PyStr(title),
                priority      |-> PyStr(<<"high">>),
                urgency       |-> PyStr(<<"soon">>),
                estimatedTime |-> PyStr(<<"15 minutes">>),
                dependencies  |-> PyList(<<>>),
                description   |-> PyStr(generate_task_description(title)),
                reason        |-> PyStr(<<"Pending decision from session">>),
                context       |-> PyStr(<<>>)])

\* the task built from the i-th of pendingDecisions[:3]
DecisionTask(i, decision) ==
    LET title == <<"Decide: ">> \o decision.s
    IN  PyDict([id            |-> PyStr(<<"decision_", ToString(i)>>),
                title         |-> PyStr(title),
                priority      |-> PyStr(<<"high">>),
                urgency       |-> PyStr(<<"soon">>),
                estimatedTime |-> PyStr(<<"15 minutes">>),
                dependencies  |-> PyList(<<>>),
                description   |-> PyStr(generate_task_description(title)),
                reason        |-> PyStr(<<"Pending decision from session">>),
                context       |-> PyStr(<<>>)])

\* task_ids: the id of each task, appended along with it
TaskIdsOf(tasks) == [i \in 1..Len(tasks) |-> tasks[i].d.id]

create_basic_task_plan(analysis_summary) ==
    LET next_actions      == Take(DictGet(analysis_summary, "nextActions", PyList(<<>>)).items,
                                  MaxPlanActions)
        pending_decisions == Take(DictGet(analysis_summary, "pendingDecisions", PyList(<<>>)).items,
                                  MaxPlanDecisions)
        tasks == [i \in 1..Len(next_actions) |-> ActionTask(i, next_actions[i])]
                 \o [i \in 1..Len(pending_decisions) |->
                        DecisionTask(i, pending_decisions[i])]
    IN  PyDict([prioritizedTasks |-> PyList(tasks),
                taskOrder        |-> PyList(TaskIdsOf(tasks)),
                suggestions      |-> PyList(<<
                    PyStr(<<"Review your session summary to understand what you accomplished">>),
                    PyStr(<<"Prioritize tasks based on deadlines and importance">>)>>),
                insights         |-> PyList(<<
                    PyStr(<<"Tasks generated from session analysis">>),
                    PyStr(<<"Consider using calendar to schedule time for these tasks">>)>>)])

(***************************************************************************)
(* Analysis summaries handed to the planner: nextActions and               *)
(* pendingDecisions missing, empty, short, and longer than the limits.     *)
(***************************************************************************)
ActionTitles ==
    << <<"Continue work on ", "a.com">>, <<"Review progress and plan next steps">>,
       <<"Resume", " session">>, <<"Review", " pages">>, <<"Finish", " resume">>,
       <<"Continue in", " editor">>, <<"Review", " tabs">> >>

DecisionTitles ==
    << <<"Which offer?">>, <<"Review", " tabs", " or not">>, <<"Complete", " form now?">>,
       <<"Which offer?">> >>

ActionOptions ==
    {[kind |-> Absent]}
    \cup [kind : {"value"},
          value : {PyList([i \in 1..n |-> PyStr(ActionTitles[i])]) :
                      n \in {0, 2, MaxPlanActions, MaxPlanActions + 2}}]

DecisionOptions ==
    {[kind |-> Absent]}
    \cup [kind : {"value"},
          value : {PyList([i \in 1..n |-> PyStr(DecisionTitles[i])]) :
                      n \in {0, 1, MaxPlanDecisions, MaxPlanDecisions + 1}}]

SummaryDict(actions, decisions) ==
    LET fields  == [nextActions |-> actions, pendingDecisions |-> decisions,
                    goalInferred |-> [kind |-> "value",
                                      value |-> PyStr(<<"Prepare for interview">>)]]
        present == {k \in DOMAIN fields : fields[k].kind # Absent}
    IN  PyDict([k \in present |-> fields[k].value])

Summaries == {SummaryDict(a, d) : a \in ActionOptions, d \in DecisionOptions}

(***************************************************************************)
(* The tool-use loop (call_planner_agent, call_gemini_with_tools) and its  *)
(* callers planTasks and analyzeSessionWithGeminiAndTools.  The call is    *)
(* suspended at each generate_content request of the loop.                 *)
(***************************************************************************)
DefaultMaxToolIterations == 3

PlannerOps == {"planTasks", "call_planner_agent"}

AnalysisOps == {"analyzeSessionWithGeminiAndTools", "call_gemini_with_tools"}

LoopOps == {"call_planner_agent", "call_gemini_with_tools"}

MaximumReached == "Maximum tool call iterations reached"

ExhaustedOffByOne(iteration, max) == iteration > max

\* for iteration in range(max_tool_iterations): no iteration is left
Exhausted(iteration, max) == iteration >= max

Raise(exc, error, what) == [raises |-> TRUE, exc |-> exc, error |-> error, what |-> what]

Return(value) == [raises |-> FALSE, value |-> value]

GoodPlan ==
    PlannerDict([kind |-> "value", value |-> PyList(<<FullTask, NumberedTask(2)>>)],
                [kind |-> "value", value |-> PyList(<<TaskId(2), TaskId(1)>>)],
                [kind |-> "value", value |-> PyList(Advice(2))],
                [kind |-> Absent])

PlannerReplies ==
    { GoodPlan,
      PlannerDict([kind |-> "value", value |-> PyList(LongTasks(MaxTasks + 1, 2))],
                  [kind |-> "value", value |-> PyList([i \in 1..(MaxOrder + 2) |-> TaskId(i)])],
                  [kind |-> "value", value |-> PyList(Advice(MaxSuggestions + 1))],
                  [kind |-> "value", value |-> PyList(Advice(MaxSuggestions + 1))]),
      PlannerDict([kind |-> "value", value |-> PyList(<<OddTask>>)],
                  [kind |-> "value", value |-> PyNull],
                  [kind |-> Absent], [kind |-> Absent]),
      PlannerDict([kind |-> "value", value |-> PyNull],
                  [kind |-> "value", value |-> PyStr(Letters(MaxOrder + 2))],
                  [kind |-> "value", value |-> PyStr(<<"t">>)], [kind |-> Absent]),
      PlannerDict([kind |-> "value",
                   value |-> PyList(<<FullTask, PyDict([id |-> TaskId(2)])>>)],
                  [kind |-> "value", value |-> PyList(<<TaskId(2), TaskId(1)>>)],
                  [kind |-> Absent], [kind |-> Absent]),
      PyDict(<<>>), PyNull, PyList(<<FullTask>>) }

ToolObjects(evs) ==
    { DropKeys(Enrichment(<<Workspace(<<KnownUrl(evs)>>, 1)>>, ls, <<"w", ".", " ", "w", "!">>,
                          [i \in 1..3 |-> GoodAction(evs)], <<>>,
                          <<"w", ".", " ", "w", "!">>, [i \in 1..3 |-> GoodAction(evs)]),
               missing) :
        ls \in {[label |-> <<"Two Sum">>, url |-> KnownUrl(evs)],
                [label |-> <<"Two Sum">>, url |-> ForeignUrl]},
        missing \in {{}, {"aiRecap", "aiActions", "aiConfidenceScore", "aiConfidenceLabel"}} }

\* what json.loads gives for the final text of an answer
ParsedValues ==
    IF op \in PlannerOps THEN PlannerReplies
    ELSE [object : {TRUE}, value : ToolObjects(events)] \cup {[object |-> FALSE]}

\* the tools create_calendar_tools and create_email_tool register
RegisteredTools ==
    {"get_upcoming_events", "check_availability", "suggest_meeting_times",
     "get_recent_emails", "draft_email"}

\* The function calls of one answer, in the order of its parts: the tool named
\* and what its handler does with the arguments.
FunctionCalls ==
    { <<[name |-> "check_availability", handler |-> "returns"]>>,
      <<[name |-> "unknown_tool", handler |-> "returns"],
        [name |-> "draft_email", handler |-> "raises"],
        [name |-> "get_upcoming_events", handler |-> "returns"]>> }

\* conversation = [{"role": "user", "parts": [full_prompt]}]
UserPrompt == [role |-> "user", parts |-> <<"full_prompt">>]

\* execute_tool_call(tool_name, arguments, tool_registry): tool_registry.get_tool
\* is called outside the try block, the handler inside it.
execute_tool_call(call, registry) ==
    IF ~registry THEN Raises("AttributeError")
    ELSE IF call.name \notin RegisteredTools THEN Returns([error |-> "not found"])
    ELSE IF call.handler = "raises" THEN Returns([error |-> "handler"])
    ELSE Returns([result |-> call.name])

\* tool_results: one function_response per function call, in order
tool_results(calls, registry) ==
    [i \in 1..Len(calls) |->
        [name |-> calls[i].name, response |-> execute_tool_call(calls[i], registry).value]]

\* the two entries a round of tool calls appends to the conversation
RoundEntries(calls, registry) ==
    <<[role |-> "model", parts |-> calls],
      [role |-> "user", parts |-> tool_results(calls, registry)]>>

ToolResponses ==
    [kind : {"api_error", "empty", "unparseable"}]
    \cup [kind : {"tool_calls"}, args : {"ok", "unparseable", "not_text"},
          text : {"empty", "unparseable", "json"}, calls : FunctionCalls]
    \cup [kind : {"json"}, value : ParsedValues]

ToolSessions == SeqsUpTo({e \in ValidateEvents : e.url # <<>>}, 1)

ToolEnvs == [available : BOOLEAN, use_gemini : BOOLEAN, api_key : BOOLEAN, use_tools : BOOLEAN]

DirectOps == {"create_basic_task_plan", "generate_task_description"}

MaxTitleTokens == 3

TitleTokens ==
    {"Resume", "Open last stop", "Continue in", " workspace", "Review", " pages", " tabs",
     "Decide: ", "Complete", "Finish", " notes"}

TaskTitles == SeqsUpTo(TitleTokens, MaxTitleTokens)

InitTools ==
    /\ op \in PlannerOps \cup AnalysisOps \cup DirectOps
    /\ goal \in Goals
    /\ events \in ToolSessions
    /\ IF op \in AnalysisOps
       THEN given = events /\ (op \in LoopOps => events # <<>>)
       ELSE /\ events = <<>>
            /\ IF op = "generate_task_description"
               THEN given \in {PyStr(title) : title \in TaskTitles}
               ELSE given \in Summaries
            /\ op \in PlannerOps =>
                  given \in {SummaryDict(act, dec) :
                               act \in {x \in ActionOptions : x.kind = Absent
                                           \/ Len(x.value.items) = 2},
                               dec \in {x \in DecisionOptions : x.kind = Absent
                                           \/ Len(x.value.items) = 1}}
    /\ op \in PlannerOps \cup DirectOps => goal = <<>>
    /\ max_workspaces = DefaultMaxWorkspaces
    /\ pc = "called"
    /\ result = NoResult
    /\ domain_data = <<>>
    /\ prev = NoResult
    /\ candidate = NoCandidate
    /\ env \in ToolEnvs
    /\ op \in PlannerOps \cup LoopOps => env.use_gemini
    /\ op \in LoopOps => env.use_tools
    /\ op \in DirectOps => (\A k \in DOMAIN env : ~env[k])
    /\ requests = 0
    /\ sent = <<>>
    /\ service = "unused"
    /\ IF op \in LoopOps
       THEN loop \in [max : 0..DefaultMaxToolIterations, iteration : {0}, registry : BOOLEAN,
                         tool_rounds : {0}, conversation : {<<UserPrompt>>}]
       ELSE loop = NoLoop

PlannerCaughtValueErrorOnly(exc) == exc = "ValueError"

\* planTasks: except Exception as e
PlannerCaught(exc) == TRUE

\* analyzeSessionWithGeminiAndTools: except Exception as e
ToolsCaught(exc) == TRUE

\* validate_output on what the loop returned, without normalize_ai_fields
ToolsOutcome(parsed, evs) ==
    IF ~parsed.object THEN [ok |-> FALSE, exc |-> "TypeError"]
    ELSE [ok |-> validate_output(parsed.value, evs).ok, exc |-> "ValueError"]

\* What the caller of the loop function does with what the loop function
\* returned or raised: planTasks sanitizes the plan, the analysis validates the
\* summary, and each falls back on an exception it catches.
CallerOutcome(outcome) ==
    IF outcome.raises THEN outcome
    ELSE IF op = "planTasks"
    THEN LET sanitized == validate_planner_output(outcome.value)
         IN  IF sanitized.raises THEN Raise(sanitized.exc, "sanitizer", "invalid")
             ELSE Return(sanitized.value)
    ELSE LET checked == ToolsOutcome(outcome.value, events)
         IN  IF checked.ok THEN Return(outcome.value.value)
             ELSE Raise(checked.exc, "validator", "invalid")

\* the caller returned its fallback without calling the loop function
Skipped(outcome) == outcome.raises /\ outcome.exc = "none"

\* The call ends.  A direct call of the loop function returns or raises what
\* the loop did.  A caller returns its fallback when it skipped the loop or
\* caught an exception, and the sanitized or validated answer otherwise.
CallEnds(outcome) ==
    /\ pc' = "returned"
    /\ IF op \in LoopOps
       THEN /\ result' = IF outcome.raises
                         THEN [kind |-> "raised", exc |-> outcome.exc, error |-> outcome.error]
                         ELSE [kind |-> "json", value |-> outcome.value]
            /\ service' = IF outcome.raises THEN outcome.what ELSE "answered"
            /\ UNCHANGED candidate
       ELSE \E final \in {IF Skipped(outcome) THEN outcome ELSE CallerOutcome(outcome)} :
              LET caught == IF op = "planTasks" THEN PlannerCaught(final.exc)
                            ELSE ToolsCaught(final.exc)
              IN  /\ candidate' = IF outcome.raises THEN candidate ELSE outcome.value
                  /\ service' = IF final.raises THEN final.what ELSE "accepted"
                  /\ result' =
                       IF ~final.raises
                       THEN [kind |-> IF op = "planTasks" THEN "plan" ELSE "summary",
                             value |-> final.value]
                       ELSE IF ~Skipped(final) /\ ~caught
                       THEN [kind |-> "raised", exc |-> final.exc, error |-> final.error]
                       ELSE IF op = "planTasks"
                       THEN [kind |-> "plan", value |-> create_basic_task_plan(given)]
                       ELSE [kind |-> "summary", value |-> analyzeSession(goal, events)]

\* The caller returns its fallback without calling the loop function.
Skip(what) == [raises |-> TRUE, exc |-> "none", error |-> what, what |-> what]

Request == [raises |-> FALSE, request |-> TRUE]

\* Entry of the loop function up to its first request: GEMINI_AVAILABLE, the
\* API key, genai.configure and GenerativeModel, then range(max_tool_iterations).
EnterLoop(l, setup_ok) ==
    IF ~env.available THEN Raise("ImportError", "not installed", "unavailable")
    ELSE IF ~env.api_key THEN Raise("ValueError", "API key not provided", "no_key")
    ELSE IF ~setup_ok THEN Raise("RuntimeError", "setup failed", "setup_error")
    ELSE IF Exhausted(0, l.max) THEN Raise("RuntimeError", MaximumReached, "exhausted")
    ELSE Request

\* the tool-use loop as planTasks and analyzeSessionWithGeminiAndTools start it
CallerLoop ==
    [max |-> DefaultMaxToolIterations, iteration |-> 0, registry |-> env.use_tools,
     tool_rounds |-> 0, conversation |-> <<UserPrompt>>]

\* The caller up to its call of the loop function.
CallerStart(setup_ok) ==
    CASE op \in LoopOps -> EnterLoop(loop, setup_ok)
      [] op = "planTasks" ->
             IF ~env.available THEN Skip("unavailable") ELSE EnterLoop(CallerLoop, setup_ok)
      [] op = "analyzeSessionWithGeminiAndTools" ->
             IF events = <<>> THEN Skip("unused")
             ELSE IF ~(env.use_gemini /\ env.available) THEN Skip("disabled")
             ELSE EnterLoop(CallerLoop, setup_ok)

\* A caller or a direct call of the loop function, from entry to the first
\* request or to its return.
ToolsStart ==
    /\ pc = "called"
    /\ op \in PlannerOps \cup AnalysisOps
    /\ \E setup_ok \in BOOLEAN :
          \E step \in {CallerStart(setup_ok)} :
              /\ loop' = IF op \in LoopOps \/ (step.raises /\ Skipped(step))
                         THEN loop ELSE CallerLoop
              /\ IF "request" \in DOMAIN step
                 THEN /\ requests' = requests + 1
                      /\ pc' = "requesting"
                      /\ UNCHANGED <<result, service, candidate>>
                 ELSE CallEnds(step) /\ UNCHANGED requests
    /\ domain_data' = IF op = "analyzeSessionWithGeminiAndTools" /\ events # <<>>
                      THEN group_events_by_domain(events) ELSE domain_data
    /\ UNCHANGED <<op, goal, events, given, max_workspaces, prev, env, sent>>

\* Whether this round runs the tool calls of the answer: call_planner_agent
\* requires a tool registry, call_gemini_with_tools does not.
RunsToolCalls(response) ==
    /\ response.kind = "tool_calls"
    /\ op \in PlannerOps => loop.registry

\* The final text of an answer whose tool calls, if any, are not run.
FinalText(response) ==
    IF response.kind = "tool_calls"
    THEN IF response.text = "json" THEN Return(GoodPlan)
         ELSE Raise("ValueError", response.text, response.text)
    ELSE IF response.kind = "json" THEN Return(response.value)
    ELSE Raise("ValueError", response.kind, response.kind)

\* One round of the loop on the answer to the outstanding request: the loop
\* function returns, raises, or sends the next request.
Round(response) ==
    IF response.kind = "api_error" THEN Raise("RuntimeError", "call failed", "api_error")
    ELSE IF ~RunsToolCalls(response) THEN FinalText(response)
    ELSE IF response.args = "unparseable"
    THEN Raise("ValueError", "tool arguments", "bad_tool_call")
    ELSE IF response.args = "not_text"
    THEN Raise("RuntimeError", "call failed", "bad_tool_call")
    ELSE IF execute_tool_call(response.calls[1], loop.registry).raises
    THEN Raise("RuntimeError", "call failed", "no_registry")
    ELSE IF Exhausted(loop.iteration + 1, loop.max)
    THEN Raise("RuntimeError", MaximumReached, "exhausted")
    ELSE Request

ToolsRespond ==
    /\ pc = "requesting"
    /\ op \in PlannerOps \cup AnalysisOps
    /\ \E response \in ToolResponses :
          \E step \in {Round(response)} :
          LET ran  == RunsToolCalls(response) /\ response.args = "ok" /\ loop.registry
              answered == IF response.kind = "tool_calls"
                          THEN [loop EXCEPT !.tool_rounds = @ + 1] ELSE loop
          IN  /\ loop' = IF ran
                         THEN [answered EXCEPT
                                 !.iteration = @ + 1,
                                 !.conversation =
                                     @ \o RoundEntries(response.calls, loop.registry)]
                         ELSE answered
              /\ IF "request" \in DOMAIN step
                 THEN /\ requests' = requests + 1
                      /\ UNCHANGED <<pc, result, service, candidate>>
                 ELSE CallEnds(step) /\ UNCHANGED requests
    /\ UNCHANGED <<op, goal, events, given, max_workspaces, domain_data, prev, env, sent>>

\* create_basic_task_plan(analysis_summary) from entry to return.
CreateBasicTaskPlanCall ==
    /\ pc = "called"
    /\ op = "create_basic_task_plan"
    /\ result' = [kind |-> "plan", value |-> create_basic_task_plan(given)]
    /\ pc' = "returned"
    /\ UNCHANGED <<op, goal, events, given, max_workspaces, domain_data, prev, gemini_vars>>

\* generate_task_description(title)
GenerateTaskDescriptionCall ==
    /\ pc = "called"
    /\ op = "generate_task_description"
    /\ result' = [kind |-> "text", value |-> PyStr(generate_task_description(given.s))]
    /\ pc' = "returned"
    /\ UNCHANGED <<op, goal, events, given, max_workspaces, domain_data, prev, gemini_vars>>

NextTools ==
    ToolsStart \/ ToolsRespond \/ CreateBasicTaskPlanCall \/ GenerateTaskDescriptionCall

SpecTools == InitTools /\ [][NextTools]_vars

\* Direct calls of the loop functions.  generate_content is a blocking call: a
\* request that was sent is answered (or fails), and a call that can go on does.
InitLoop == InitTools /\ op \in LoopOps

NextLoop == ToolsStart \/ ToolsRespond

FairLoop == InitLoop /\ [][NextLoop]_vars /\ WF_vars(NextLoop)

(***************************************************************************)
(* What the claims speak of, stated on the caller's events alone.          *)
(***************************************************************************)
DomainOfEvent(evs, i) == extract_domain(evs[i].url)

DomainsOf(evs) == {DomainOfEvent(evs, i) : i \in 1..Len(evs)}

UrlsOfDomain(evs, d) == {evs[i].url : i \in {j \in 1..Len(evs) : DomainOfEvent(evs, j) = d}}

RECURSIVE DomainTime(_, _)
DomainTime(evs, d) ==
    IF evs = <<>> THEN 0
    ELSE (IF extract_domain(Head(evs).url) = d THEN Head(evs).durationSec ELSE 0)
         + DomainTime(Tail(evs), d)

RECURSIVE UrlTime(_, _)
UrlTime(evs, u) ==
    IF evs = <<>> THEN 0
    ELSE (IF Head(evs).url = u THEN Head(evs).durationSec ELSE 0) + UrlTime(Tail(evs), u)

TotalDuration(evs) == SeqSum([i \in 1..Len(evs) |-> evs[i].durationSec])

DomainFirstSeen(evs, d) == CHOOSE i \in 1..Len(evs) :
    DomainOfEvent(evs, i) = d /\ \A j \in 1..(i - 1) : DomainOfEvent(evs, j) # d

UrlFirstSeen(evs, u) == CHOOSE i \in 1..Len(evs) :
    evs[i].url = u /\ \A j \in 1..(i - 1) : evs[j].url # u

\* d is listed before e: more time, or equal time and seen first.
DomainBefore(evs, d, e) ==
    LET td == DomainTime(evs, d)
        te == DomainTime(evs, e)
    IN  td > te \/ (td = te /\ DomainFirstSeen(evs, d) < DomainFirstSeen(evs, e))

UrlBefore(evs, u, v) ==
    LET tu == UrlTime(evs, u)
        tv == UrlTime(evs, v)
    IN  tu > tv \/ (tu = tv /\ UrlFirstSeen(evs, u) < UrlFirstSeen(evs, v))

\* listed is the first n members of all in the order before(_, _), a strict
\* total order on all.
IsTopOf(listed, all, n, before(_, _)) ==
    /\ Len(listed) = Min(Cardinality(all), n)
    /\ Range(listed) \subseteq all
    /\ \A k \in 1..(Len(listed) - 1) : before(listed[k], listed[k + 1])
    /\ listed # <<>> => \A x \in all \ Range(listed) : before(listed[Len(listed)], x)

Returned(o) == pc = "returned" /\ op = o

ReturnedWorkspaces ==
    IF result.kind = "workspaces" THEN result.value ELSE result.value.workspaces

\* C1: the workspaces analyzeSession returns have timeSec values that sum to at
\* most the total durationSec of the events, to exactly that total when the
\* events span at most 5 domains, and each timeSec is the sum of the durations
\* of exactly the events of that domain.
C1_TimeWithinTotal ==
    Returned("analyzeSession") =>
        LET ws == result.value.workspaces
        IN  /\ SeqSum(WorkspaceTimes(ws)) <= TotalDuration(given)
            /\ Cardinality(DomainsOf(given)) <= 5 =>
                   SeqSum(WorkspaceTimes(ws)) = TotalDuration(given)
            /\ \A i \in 1..Len(ws) : ws[i].timeSec = DomainTime(given, ws[i].label)

C1_Witness ==
    /\ Returned("analyzeSession")
    /\ Cardinality(DomainsOf(given)) > 5
    /\ Len(given) > Cardinality(DomainsOf(given))
    /\ SeqSum(WorkspaceTimes(result.value.workspaces)) < TotalDuration(given)

\* C2: analyzeSession returns at most 5 workspaces, each with at most 5 topUrls
\* and no URL twice in one topUrls.
C2_BoundedWorkspaces ==
    Returned("analyzeSession") =>
        LET ws == result.value.workspaces
        IN  /\ Len(ws) <= 5
            /\ \A i \in 1..Len(ws) :
                   /\ Len(ws[i].topUrls) <= 5
                   /\ \A j, k \in 1..Len(ws[i].topUrls) :
                          ws[i].topUrls[j] = ws[i].topUrls[k] => j = k

C2_Witness ==
    /\ Returned("analyzeSession")
    /\ \E d \in DomainsOf(given) : Cardinality(UrlsOfDomain(given, d)) > 5
    /\ Len(given) > WideLen
    /\ Len(result.value.workspaces[1].topUrls) = 5

\* C9: create_workspaces_from_domains lists the domains by descending total
\* time, equal times in first-seen order, cut to max_workspaces; each topUrls
\* lists the domain's URLs by descending time, equal times in first-seen order,
\* cut to 5.
C9_RankedWorkspaces ==
    (pc = "returned" /\ op \in {"analyzeSession", "create_workspaces_from_domains"}
        /\ given # <<>>) =>
        LET ws     == ReturnedWorkspaces
            labels == [k \in 1..Len(ws) |-> ws[k].label]
            DBefore(d, e) == DomainBefore(given, d, e)
            UBefore(u, v) == UrlBefore(given, u, v)
        IN  /\ IsTopOf(labels, DomainsOf(given), max_workspaces, DBefore)
            /\ \A k \in 1..Len(ws) :
                   /\ ws[k].timeSec = DomainTime(given, ws[k].label)
                   /\ IsTopOf(ws[k].topUrls, UrlsOfDomain(given, ws[k].label), 5, UBefore)

C9_Witness ==
    /\ pc = "returned" /\ op = "analyzeSession"
    /\ Cardinality(DomainsOf(given)) > Len(result.value.workspaces)
    /\ \E k \in 1..(Len(result.value.workspaces) - 1) :
           /\ result.value.workspaces[k].timeSec = result.value.workspaces[k + 1].timeSec
           /\ result.value.workspaces[k + 1].timeSec > result.value.workspaces[5].timeSec

\* what get_last_stop returned: to its caller, or to analyzeSession, which
\* puts it in the summary
LastStop == IF op = "get_last_stop" THEN result.value ELSE result.value.lastStop

\* C10: get_last_stop returns the url of the first event, in input order, among
\* those with the maximal timestamp; label "Unknown" and url "" for no events.
C10_LastStopIsFirstLatest ==
    (Returned("get_last_stop") \/ Returned("analyzeSession")) =>
        IF given = <<>>
        THEN LastStop = [label |-> <<"Unknown">>, url |-> <<>>]
        ELSE \E i \in 1..Len(given) :
                /\ \A j \in 1..Len(given) : given[j].ts <= given[i].ts
                /\ \A j \in 1..(i - 1) : given[j].ts < given[i].ts
                /\ LastStop.url = given[i].url

\* get_last_stop was called with three events, the last two sharing the
\* latest timestamp, and returned the url of the second
C10_Witness ==
    /\ Returned("get_last_stop")
    /\ \E i, j \in 1..Len(given) :
           /\ i < j
           /\ given[i].ts = given[j].ts
           /\ given[i].url # given[j].url
           /\ \A k \in 1..Len(given) : given[k].ts <= given[i].ts
           /\ \E k \in 1..Len(given) : given[k].ts < given[i].ts
           /\ result.value.url = given[i].url

\* get_last_stop was called with no events
C10_EmptyCase ==
    /\ Returned("get_last_stop")
    /\ given = <<>>
    /\ result.value = [label |-> <<"Unknown">>, url |-> <<>>]

(***************************************************************************)
(* Grounding of an enrichment object, stated on the object and the events. *)
(***************************************************************************)
TopUrlEntries(output) ==
    IF Has(output, "workspaces")
    THEN UNION {Range(output.workspaces[i].topUrls) :
                    i \in {j \in 1..Len(output.workspaces) :
                               Has(output.workspaces[j], "topUrls")}}
    ELSE {}

LastStopEntries(output) ==
    IF Has(output, "lastStop") /\ Has(output.lastStop, "url") /\ output.lastStop.url # <<>>
    THEN {output.lastStop.url} ELSE {}

UrlErrors ==
    {"lastStop.url not found in input events", "Workspace URL not found in input events"}

\* The object with every URL it cites removed: what is left decides the checks
\* that come before the two URL checks.
WithoutUrls(output) ==
    LET o1 == IF Has(output, "lastStop")
              THEN SetKey(output, "lastStop", DropKeys(output.lastStop, {"url"}))
              ELSE output
    IN  IF Has(o1, "workspaces")
        THEN SetKey(o1, "workspaces",
                    [i \in 1..Len(o1.workspaces) |->
                        IF Has(o1.workspaces[i], "topUrls")
                        THEN SetKey(o1.workspaces[i], "topUrls", <<>>)
                        ELSE o1.workspaces[i]])
        ELSE o1

\* C3 as stated: an accepted object has every topUrls entry and a non-empty
\* lastStop.url among the input URLs; an object violating either is rejected
\* with an error that names the offending URL.
C3_AsStated ==
    Returned("validate_output") =>
        LET urls    == InputUrls(given)
            strays  == (TopUrlEntries(candidate) \cup LastStopEntries(candidate)) \ urls
        IN  /\ result.kind = "valid" => strays = {}
            /\ strays # {} =>
                   /\ result.kind = "raised"
                   /\ result.error \in UrlErrors
                   /\ result.arg \in strays

\* C3 as amended: an accepted object has every non-empty topUrls entry and a
\* non-empty lastStop.url among the input URLs; an error about a URL names a
\* non-empty URL of the object that no input event has; and an object citing
\* such a URL that passes every earlier check gets such an error.
C3_GroundedWhenAccepted ==
    Returned("validate_output") =>
        LET urls    == InputUrls(given)
            strays  == ((TopUrlEntries(candidate) \cup LastStopEntries(candidate)) \ urls)
                           \ {<<>>}
        IN  /\ result.kind = "valid" => strays = {}
            /\ (result.kind = "raised" /\ result.error \in UrlErrors) => result.arg \in strays
            /\ (strays # {} /\ validate_output(WithoutUrls(candidate), given).ok) =>
                   (result.kind = "raised" /\ result.error \in UrlErrors)

C3_Witness ==
    /\ Returned("validate_output")
    /\ result.kind = "valid"
    /\ \E u \in TopUrlEntries(candidate) : u # <<>>
    /\ LastStopEntries(candidate) # {}
    /\ Len(given) > 0

\* C7 as stated: an accepted object has at most 5 workspaces, at most 5 entries
\* in each topUrls, at most 5 nextActions and at most 3 pendingDecisions.
C7_AsStated ==
    (Returned("validate_output") /\ result.kind = "valid") =>
        /\ Len(candidate.workspaces) <= 5
        /\ \A i \in 1..Len(candidate.workspaces) : Len(candidate.workspaces[i].topUrls) <= 5
        /\ Len(candidate.nextActions) <= 5
        /\ Len(candidate.pendingDecisions) <= 3

\* C7 as amended: an accepted object has at most 5 workspaces, at most 5
\* nextActions and at most 3 pendingDecisions; the length of topUrls is not
\* checked.
C7_BoundedWhenAccepted ==
    (Returned("validate_output") /\ result.kind = "valid") =>
        /\ Len(candidate.workspaces) <= 5
        /\ Len(candidate.nextActions) <= 5
        /\ Len(candidate.pendingDecisions) <= 3

C7_Witness ==
    /\ Returned("validate_output")
    /\ result.kind = "valid"
    /\ \E i \in 1..Len(candidate.workspaces) : Len(candidate.workspaces[i].topUrls) > 5
    /\ Len(candidate.nextActions) = 2

ServiceFailures ==
    {"disabled", "no_key", "setup_error", "api_error", "empty", "unparseable_twice",
     "non_object", "invalid"}

ReturnedTimes == WorkspaceTimes(result.value.workspaces)

\* C4: whatever the external service does short of an accepted answer,
\* analyzeSessionWithGemini does not raise and returns what analyzeSession
\* returns; with use_gemini false it sends no request.
C4_FallsBackToBasic ==
    Returned("analyzeSessionWithGemini") =>
        /\ result.kind = "summary"
        /\ service # "accepted" => result.value = analyzeSession(goal, given)
        /\ service \in ServiceFailures \cup {"unused", "accepted"}
        /\ (~env.use_gemini \/ ~env.available \/ ~env.api_key) =>
               (requests = 0 /\ service # "accepted")

C4_Witness ==
    /\ Returned("analyzeSessionWithGemini")
    /\ service = "api_error"
    /\ requests = 2
    /\ result.kind = "summary"
    /\ result.value = analyzeSession(goal, given)
    /\ Len(given) > 0

\* C5 as stated: in the summary analyzeSessionWithGemini returns, each entry of
\* each topUrls and a non-empty lastStop.url is the url of an input event, and
\* an external answer is returned only if validate_output accepted it.
C5_AsStated ==
    Returned("analyzeSessionWithGemini") =>
        /\ result.kind = "summary"
        /\ TopUrlEntries(result.value) \subseteq InputUrls(given)
        /\ LastStopEntries(result.value) \subseteq InputUrls(given)
        /\ result.value # analyzeSession(goal, given) =>
               (service = "accepted" /\ validate_output(result.value, given).ok)

\* C5 as amended: each non-empty entry of each topUrls and a non-empty
\* lastStop.url is the url of an input event, and an external answer is
\* returned only if validate_output accepted it.
C5_ReturnedSummaryGrounded ==
    Returned("analyzeSessionWithGemini") =>
        /\ result.kind = "summary"
        /\ (TopUrlEntries(result.value) \ {<<>>}) \subseteq InputUrls(given)
        /\ LastStopEntries(result.value) \subseteq InputUrls(given)
        /\ result.value # analyzeSession(goal, given) =>
               (service = "accepted" /\ validate_output(result.value, given).ok)

C5_Witness ==
    /\ Returned("analyzeSessionWithGemini")
    /\ service = "accepted"
    /\ result.value # analyzeSession(goal, given)
    /\ TopUrlEntries(result.value) \ {<<>>} # {}
    /\ LastStopEntries(result.value) # {}

\* C6 as stated: the workspaces of the summary analyzeSessionWithGemini
\* returns, enriched or fallback, have timeSec values summing to at most the
\* total durationSec of the events.
C6_AsStated ==
    (Returned("analyzeSessionWithGemini") /\ result.kind = "summary") =>
        SeqSum(ReturnedTimes) <= TotalDuration(given)

\* C6 as amended: the bound holds whenever the summary returned is the
\* fallback; the timeSec values of an accepted external answer are not checked.
C6_FallbackTimeWithinTotal ==
    (Returned("analyzeSessionWithGemini") /\ result.kind = "summary"
        /\ service # "accepted") =>
        SeqSum(ReturnedTimes) <= TotalDuration(given)

C6_Witness ==
    /\ Returned("analyzeSessionWithGemini")
    /\ service = "invalid"
    /\ result.kind = "summary"
    /\ Len(result.value.workspaces) > 1
    /\ SeqSum(ReturnedTimes) = TotalDuration(given)
    /\ SeqSum(WorkspaceTimes(candidate.workspaces)) > TotalDuration(given)

\* C11: for an empty or absent events list analyzeSession returns the fixed
\* no-activity summary, with the caller's goal if it is non-empty and
\* "No activity detected" otherwise; analyzeSessionWithGemini returns the same
\* without sending a request.
C11_NoActivitySummary ==
    (pc = "returned" /\ op \in {"analyzeSession", "analyzeSessionWithGemini"}
        /\ given = <<>>) =>
        /\ result.kind = "summary"
        /\ result.value =
              [goalInferred     |-> IF goal = <<>> THEN <<"No activity detected">> ELSE goal,
               workspaces       |-> <<>>,
               resumeSummary    |-> <<"No browser activity was recorded in this session.">>,
               lastStop         |-> [label |-> <<"Unknown">>, url |-> <<>>],
               nextActions      |-> <<>>,
               pendingDecisions |-> <<>>]
        /\ requests = 0
    /\ sent = <<>>

C11_Witness ==
    /\ Returned("analyzeSessionWithGemini")
    /\ given = <<>>
    /\ goal # <<>>
    /\ env.use_gemini /\ env.available /\ env.api_key
    /\ result.kind = "summary"
    /\ result.value.goalInferred = goal
    /\ requests = 0
    /\ sent = <<>>

Contains(text, part) ==
    \E i \in 0..(Len(text) - Len(part)) : SubSeq(text, i + 1, i + Len(part)) = part

NamedDomains(evs) ==
    {extract_domain(evs[i].url) : i \in {j \in 1..Len(evs) : evs[j].url # <<>>}} \ {<<>>}

GroundedActions(output, evs) ==
    /\ Has(output, "aiActions")
    /\ Len(output.aiActions) = 3
    /\ \A i \in 1..3 : \E d \in NamedDomains(evs) : Contains(output.aiActions[i], d)

\* C12: validate_output rejects a candidate whose aiActions does not have
\* exactly 3 entries or has an entry containing none of the domains of the input
\* events' urls; an accepted candidate has exactly 3 aiActions, each containing
\* such a domain; an error about aiActions is raised only for such a fault.
C12_ActionsMentionDomains ==
    Returned("validate_output") =>
        /\ result.kind \in {"valid", "raised"}
        /\ ~GroundedActions(candidate, given) => result.kind = "raised"
        /\ result.kind = "valid" => GroundedActions(candidate, given)
        /\ (result.kind = "raised" /\ result.error = "aiActions must have exactly 3 items") =>
               Len(candidate.aiActions) # 3
        /\ (result.kind = "raised" /\ result.error = "aiAction does not mention a known domain") =>
               /\ Len(candidate.aiActions) = 3
               /\ \E i \in 1..3 : candidate.aiActions[i] = result.arg
               /\ \A d \in NamedDomains(given) : ~Contains(result.arg, d)

C12_Witness ==
    /\ Returned("validate_output")
    /\ result.kind = "raised"
    /\ result.error = "aiAction does not mention a known domain"
    /\ result.arg = <<"Take a break">>
    /\ Len(candidate.aiActions) = 3
    /\ \E d \in NamedDomains(given) : Contains(candidate.aiActions[1], d)

(***************************************************************************)
(* The planner's sanitizer, stated on its input and its output.            *)
(***************************************************************************)
PlanKeys == {"prioritizedTasks", "taskOrder", "suggestions", "insights"}

TaskFields ==
    {"id", "title", "priority", "urgency", "estimatedTime", "dependencies",
     "description", "reason", "context"}

\* the entries of the input's field, empty when it is missing or not a list
InputItems(output, k) ==
    IF IsDict(output) /\ k \in DOMAIN output.d /\ output.d[k].t = "list"
    THEN output.d[k].items ELSE <<>>

KeptPositions(entries) ==
    {i \in 1..Len(entries) :
        entries[i].t = "dict" /\ {"id", "title"} \subseteq DOMAIN entries[i].d}

Nth(S, j) == CHOOSE i \in S : Cardinality({k \in S : k < i}) = j - 1

PlanReturned == Returned("validate_planner_output") /\ result.kind = "plan"

OutTasks == result.value.d.prioritizedTasks.items

\* C13 as stated: validate_planner_output never raises; whatever the input, it
\* returns a record with the four TaskPlan keys.
C13_NeverFails ==
    Returned("validate_planner_output") =>
        /\ result.kind = "plan"
        /\ result.value.t = "dict"
        /\ DOMAIN result.value.d = PlanKeys

\* C14: the tasks returned are the input entries that are records with id and
\* title, in their original order, cut to the first 10; taskOrder is cut to its
\* first 10 entries, suggestions and insights to their first 5.
C14_KeptInOrderAndCut ==
    PlanReturned =>
        LET entries == InputItems(candidate, "prioritizedTasks")
            kept    == KeptPositions(entries)
            order   == IF "taskOrder" \in DOMAIN candidate.d
                       THEN candidate.d.taskOrder ELSE PyList(<<>>)
        IN  /\ Len(OutTasks) = Min(Cardinality(kept), 10)
            /\ \A j \in 1..Len(OutTasks) :
                  /\ OutTasks[j].d.id = str(entries[Nth(kept, j)].d.id)
                  /\ OutTasks[j].d.title = str(entries[Nth(kept, j)].d.title)
            /\ result.value.d.taskOrder =
                  IF order.t = "list" THEN PyList(Take(order.items, 10))
                  ELSE PyStr(Take(order.s, 10))
            /\ \A k \in {"suggestions", "insights"} :
                  LET given_k == InputItems(candidate, k)
                      out_k   == result.value.d[k].items
                  IN  /\ Len(out_k) = Min(Len(given_k), 5)
                      /\ \A i \in 1..Len(out_k) : out_k[i] = str(given_k[i])

C14_Witness ==
    /\ PlanReturned
    /\ Len(OutTasks) = 10
    /\ LET entries == InputItems(candidate, "prioritizedTasks")
       IN  /\ Cardinality(KeptPositions(entries)) > 10
           /\ \E i \in 1..10 : i \notin KeptPositions(entries)
    /\ Len(InputItems(candidate, "taskOrder")) > 10
    /\ Len(result.value.d.taskOrder.items) = 10
    /\ Len(InputItems(candidate, "suggestions")) > 5

\* C15 as stated: every task returned by validate_planner_output has priority
\* high, medium or low and urgency urgent, soon or later.
C15_KnownPriorityAndUrgency ==
    PlanReturned =>
        \A j \in 1..Len(OutTasks) :
            /\ OutTasks[j].d.priority \in {PyStr(<<"high">>), PyStr(<<"medium">>), PyStr(<<"low">>)}
            /\ OutTasks[j].d.urgency \in {PyStr(<<"urgent">>), PyStr(<<"soon">>), PyStr(<<"later">>)}

\* C16 as stated: every task returned by validate_planner_output has all nine
\* Task fields, with dependencies a list, and a description present in the
\* input task is present in the output task.
C16_AllNineFields ==
    PlanReturned =>
        LET entries == InputItems(candidate, "prioritizedTasks")
            kept    == KeptPositions(entries)
        IN  \A j \in 1..Len(OutTasks) :
               /\ DOMAIN OutTasks[j].d = TaskFields
               /\ OutTasks[j].d.dependencies.t = "list"
               /\ "description" \in DOMAIN entries[Nth(kept, j)].d =>
                      OutTasks[j].d.description = str(entries[Nth(kept, j)].d.description)

GivenItems(key) == IF key \in DOMAIN given.d THEN given.d[key].items ELSE <<>>

Smaller(a, b) == IF a < b THEN a ELSE b

BasicTasks == result.value.d.prioritizedTasks.items

\* C17: create_basic_task_plan turns the first 5 nextActions, in order, into
\* tasks task_1..task_k (medium, soon, "30 minutes") and then the first 3
\* pendingDecisions, in order, into tasks decision_1..decision_m titled
\* "Decide: <decision>" (high, soon, "15 minutes"); the plan has at most 8
\* tasks, their ids are pairwise distinct, every dependencies list is empty,
\* and taskOrder is the sequence of the tasks' ids in the same order.
C17_BasicPlanFromSummary ==
    Returned("create_basic_task_plan") =>
        LET actions   == GivenItems("nextActions")
            decisions == GivenItems("pendingDecisions")
            k == Smaller(Len(actions), 5)
            m == Smaller(Len(decisions), 3)
        IN  /\ result.kind = "plan"
            /\ Len(BasicTasks) = k + m
            /\ Len(BasicTasks) <= 8
            /\ \A i \in 1..k :
                  /\ BasicTasks[i].d.id = PyStr(<<"task_", ToString(i)>>)
                  /\ BasicTasks[i].d.title = actions[i]
                  /\ BasicTasks[i].d.priority = PyStr(<<"medium">>)
                  /\ BasicTasks[i].d.urgency = PyStr(<<"soon">>)
                  /\ BasicTasks[i].d.estimatedTime = PyStr(<<"30 minutes">>)
            /\ \A j \in 1..m :
                  /\ BasicTasks[k + j].d.id = PyStr(<<"decision_", ToString(j)>>)
                  /\ BasicTasks[k + j].d.title = PyStr(<<"Decide: ">> \o decisions[j].s)
                  /\ BasicTasks[k + j].d.priority = PyStr(<<"high">>)
                  /\ BasicTasks[k + j].d.urgency = PyStr(<<"soon">>)
                  /\ BasicTasks[k + j].d.estimatedTime = PyStr(<<"15 minutes">>)
            /\ \A i, j \in 1..Len(BasicTasks) :
                  i # j => BasicTasks[i].d.id # BasicTasks[j].d.id
            /\ \A i \in 1..Len(BasicTasks) : BasicTasks[i].d.dependencies = PyList(<<>>)
            /\ result.value.d.taskOrder =
                  PyList([i \in 1..Len(BasicTasks) |-> BasicTasks[i].d.id])

\* more than 5 actions and more than 3 decisions went in, 8 tasks came out
C17_Witness ==
    /\ Returned("create_basic_task_plan")
    /\ Len(GivenItems("nextActions")) > 5
    /\ Len(GivenItems("pendingDecisions")) > 3
    /\ Len(BasicTasks) = 8

\* len() of a list or of a string
Entries(v) == IF v.t = "list" THEN Len(v.items) ELSE Len(v.s)

\* C18: planTasks never raises and returns a record with the four keys
\* prioritizedTasks, taskOrder, suggestions and insights, holding at most 10
\* tasks, at most 10 taskOrder entries, at most 5 suggestions and at most 5
\* insights, whether the planner is unavailable, fails, answers with a
\* non-record or a malformed plan, or succeeds.
C18_PlanTasksAlwaysReturnsPlan ==
    Returned("planTasks") =>
        /\ result.kind = "plan"
        /\ IsDict(result.value)
        /\ DOMAIN result.value.d = PlanKeys
        /\ IsList(result.value.d.prioritizedTasks)
        /\ Len(result.value.d.prioritizedTasks.items) <= 10
        /\ result.value.d.taskOrder.t \in {"list", "str"}
        /\ Entries(result.value.d.taskOrder) <= 10
        /\ IsList(result.value.d.suggestions)
        /\ Len(result.value.d.suggestions.items) <= 5
        /\ IsList(result.value.d.insights)
        /\ Len(result.value.d.insights.items) <= 5

\* the planner's answer was longer than every limit and planTasks returned it cut
C18_Witness ==
    /\ Returned("planTasks")
    /\ service = "accepted"
    /\ IsDict(candidate)
    /\ DOMAIN candidate.d = PlanKeys
    /\ \A k \in PlanKeys : IsList(candidate.d[k])
    /\ Len(candidate.d.prioritizedTasks.items) > 10
    /\ Len(candidate.d.taskOrder.items) > 10
    /\ Len(candidate.d.suggestions.items) > 5
    /\ Len(candidate.d.insights.items) > 5
    /\ Len(result.value.d.prioritizedTasks.items) = 10
    /\ Len(result.value.d.suggestions.items) = 5

\* the loop function was entered and got as far as range(max_tool_iterations)
LoopEntered == service \notin {"unused", "unavailable", "disabled", "no_key", "setup_error"}

\* The claim C19 as stated: at most max_tool_iterations requests; the loop goes
\* on only after answers that held tool calls; and when every answer held tool
\* calls the call ends by raising "Maximum tool call iterations reached" after
\* exactly max_tool_iterations requests.
C19_AsStatedNow ==
    op \in LoopOps =>
        /\ requests <= loop.max
        /\ pc = "requesting" => loop.tool_rounds = requests - 1
        /\ (pc = "returned" /\ LoopEntered /\ loop.tool_rounds = requests) =>
              /\ service = "exhausted"
              /\ requests = loop.max
              /\ result = [kind |-> "raised", exc |-> "RuntimeError",
                           error |-> MaximumReached]

C19_AsStated == (op \in LoopOps => <>(pc = "returned")) /\ []C19_AsStatedNow

\* At most max_tool_iterations requests; a request is outstanding only after
\* answers whose tool calls were all run; the call raises "Maximum tool call
\* iterations reached" exactly when max_tool_iterations rounds of tool calls
\* were run, having sent that many requests; every other call that entered the
\* loop ends at the round after the ones whose tool calls were run.
C19_BoundedNow ==
    op \in LoopOps =>
        /\ requests <= loop.max
        /\ loop.iteration <= loop.tool_rounds
        /\ pc = "requesting" =>
              /\ loop.iteration = requests - 1
              /\ loop.tool_rounds = requests - 1
        /\ (pc = "returned" /\ LoopEntered) =>
              /\ service = "exhausted" <=> loop.iteration = loop.max
              /\ service = "exhausted" => requests = loop.max
              /\ service # "exhausted" => requests = loop.iteration + 1
              /\ service = "exhausted" =>
                    result = [kind |-> "raised", exc |-> "RuntimeError",
                              error |-> MaximumReached]
        /\ (pc = "returned" /\ ~LoopEntered) => requests = 0

\* C19: one call of the tool-use loop terminates and sends at most
\* max_tool_iterations requests; it ends at the first round whose answer holds
\* no tool call, or whose tool calls are not run or fail, and when the tool
\* calls of max_tool_iterations rounds were run it raises "Maximum tool call
\* iterations reached" after exactly that many requests.
C19_LoopTerminatesWithinMax ==
    (op \in LoopOps => <>(pc = "returned")) /\ []C19_BoundedNow

\* three rounds of tool calls were run and the call raised the exhaustion error
C19_Witness ==
    /\ Returned("call_planner_agent")
    /\ loop.max = DefaultMaxToolIterations
    /\ loop.iteration = loop.max
    /\ requests = loop.max
    /\ result = [kind |-> "raised", exc |-> "RuntimeError", error |-> MaximumReached]

\* the loop of this call ran the tool calls of max_tool_iterations rounds
LoopUsedUp == pc = "returned" /\ service = "exhausted" /\ loop.iteration = loop.max

ExhaustionError == [kind |-> "raised", exc |-> "RuntimeError", error |-> MaximumReached]

\* The claim C20 as stated: when the loop uses up max_tool_iterations rounds,
\* planTasks and analyzeSessionWithGeminiAndTools end with that error.
C20_AsStated ==
    (LoopUsedUp /\ op \in {"planTasks", "analyzeSessionWithGeminiAndTools"}) =>
        result = ExhaustionError

\* C20: an exhausted-iteration error is raised by the loop function to its
\* caller; planTasks and analyzeSessionWithGeminiAndTools catch it and end with
\* their fallback result, the basic task plan and the basic analysis, having
\* sent max_tool_iterations requests.
C20_ExhaustionCaughtByCallers ==
    LoopUsedUp =>
        /\ requests = loop.max
        /\ op \in LoopOps => result = ExhaustionError
        /\ op = "planTasks" =>
              result = [kind |-> "plan", value |-> create_basic_task_plan(given)]
        /\ op = "analyzeSessionWithGeminiAndTools" =>
              result = [kind |-> "summary", value |-> analyzeSession(goal, events)]

\* planTasks returned a plan after three rounds of tool calls
C20_Witness ==
    /\ Returned("planTasks")
    /\ LoopUsedUp
    /\ requests = DefaultMaxToolIterations
    /\ result.kind = "plan"
    /\ Len(result.value.d.prioritizedTasks.items) > 0

\* the payload execute_tool_call should give for a function call
PayloadKeys(call) ==
    IF call.name \in RegisteredTools /\ call.handler = "returns" THEN {"result"} ELSE {"error"}

\* the k-th round of tool calls left the model's parts and then one response
\* per call, in the order of the calls, in the conversation
RoundRecorded(k) ==
    LET asked    == loop.conversation[2 * k]
        answered == loop.conversation[2 * k + 1]
    IN  /\ asked.role = "model"
        /\ answered.role = "user"
        /\ Len(answered.parts) = Len(asked.parts)
        /\ \A i \in 1..Len(asked.parts) :
              /\ answered.parts[i].name = asked.parts[i].name
              /\ DOMAIN answered.parts[i].response = PayloadKeys(asked.parts[i])

\* C21: in the tool-use loop a tool call naming an unregistered tool, or whose
\* handler raises, does not abort the call: execute_tool_call gives an {error}
\* payload (a {result} payload otherwise) and never an exception, every tool
\* call of a round gets one function response in the order of the calls, the
\* model's parts and then the responses are appended to the conversation, and
\* the loop goes on to the next request.
C21_ToolFailuresDoNotAbort ==
    op \in PlannerOps \cup AnalysisOps =>
        /\ service # "no_registry"
        /\ loop.conversation # <<>> =>
              /\ Len(loop.conversation) = 1 + 2 * loop.iteration
              /\ \A k \in 1..loop.iteration : RoundRecorded(k)
        /\ pc = "requesting" => requests = loop.iteration + 1

\* C22: one call of call_gemini sends at most two requests; the second is sent
\* only after the text of the first answer failed to parse and with retry
\* enabled, and carries "Output only valid JSON." before the prompt; if its
\* answer is empty or fails to parse too, the call raises and sends no third
\* request; an empty first answer or an API error on the first request is not
\* retried.
C22_AtMostOneRetry ==
    op = "call_gemini" =>
        /\ requests = Len(sent)
        /\ Len(sent) <= 2
        /\ Len(sent) >= 1 => sent[1].prompt = <<"full_prompt">>
        /\ Len(sent) = 2 =>
              /\ sent[1].answer = "unparseable"
              /\ env.retry
              /\ sent[2].prompt = <<"Output only valid JSON.\n\n", "full_prompt">>
        /\ (Len(sent) >= 1 /\ sent[1].answer \in {"empty", "api_error"}) =>
              /\ Len(sent) = 1
              /\ pc = "returned"
              /\ result.kind = "raised"
        /\ (Len(sent) = 1 /\ sent[1].answer = "unparseable") =>
              /\ ~env.retry
              /\ pc = "returned"
              /\ result = [kind |-> "raised", exc |-> "ValueError"]
        /\ (Len(sent) = 2 /\ sent[2].answer \in {"empty", "unparseable"}) =>
              /\ pc = "returned"
              /\ result = [kind |-> "raised", exc |-> "ValueError"]
        /\ pc = "returned" => \A i \in 1..Len(sent) : sent[i].answer # "pending"

\* the retry was sent and its answer did not parse either
C22_Witness ==
    /\ Returned("call_gemini")
    /\ Len(sent) = 2
    /\ sent[1].answer = "unparseable"
    /\ sent[2].answer = "unparseable"
    /\ result.kind = "raised"

AiFields == {"aiRecap", "aiActions", "aiConfidenceScore", "aiConfidenceLabel"}

\* the object the external service answered with, when the call got as far as
\* validating one
ExternalObject == IF op = "analyzeSessionWithGemini" THEN candidate ELSE candidate.value

ValidatedObject ==
    /\ pc = "returned"
    /\ op \in {"analyzeSessionWithGemini", "analyzeSessionWithGeminiAndTools"}
    /\ service \in {"accepted", "invalid"}
    /\ op = "analyzeSessionWithGeminiAndTools" => candidate.object

\* C23: on both enrichment paths the external result is alias-normalized
\* before validate_output is called on it: it is accepted exactly when its
\* normalized form is valid, and what is returned carries the four AI fields.
C23_NormalizedBeforeValidated ==
    ValidatedObject =>
        /\ service = "accepted" <=>
              validate_output(normalize_ai_fields(ExternalObject), events).ok
        /\ service = "accepted" => AiFields \subseteq DOMAIN result.value

\* The checks of validate_output in the order the claim gives, each with the
\* message of its error.
CheckMessages ==
    <<"Missing required field", "Too many workspaces", "Invalid workspace structure",
      "Too many nextActions", "Too many pendingDecisions", "aiRecap must be 2-3 sentences",
      "aiActions must have exactly 3 items", "aiAction does not mention a known domain",
      "lastStop.url not found in input events", "Workspace URL not found in input events">>

RequiredKeys ==
    {"goalInferred", "workspaces", "lastStop", "resumeSummary", "nextActions",
     "pendingDecisions", "aiRecap", "aiActions", "aiConfidenceScore", "aiConfidenceLabel"}

WellFormedWorkspaces(c) ==
    \A i \in 1..Len(c.workspaces) :
        {"label", "timeSec", "topUrls"} \subseteq DOMAIN c.workspaces[i]

\* Whether candidate c with all its required keys violates the k-th check.
Violates(c, evs, k) ==
    CASE k = 2  -> Len(c.workspaces) > 5
      [] k = 3  -> ~WellFormedWorkspaces(c)
      [] k = 4  -> Len(c.nextActions) > 5
      [] k = 5  -> Len(c.pendingDecisions) > 3
      [] k = 6  -> SentenceCount(c.aiRecap) \notin {2, 3}
      [] k = 7  -> Len(c.aiActions) # 3
      [] k = 8  -> \E i \in 1..Len(c.aiActions) :
                       ~\E d \in NamedDomains(evs) : Contains(c.aiActions[i], d)
      [] k = 9  -> /\ "url" \in DOMAIN c.lastStop
                   /\ c.lastStop.url # <<>>
                   /\ c.lastStop.url \notin {evs[i].url : i \in 1..Len(evs)}
      [] k = 10 -> /\ WellFormedWorkspaces(c)
                   /\ \E i \in 1..Len(c.workspaces) :
                         \E j \in 1..Len(c.workspaces[i].topUrls) :
                             /\ c.workspaces[i].topUrls[j] # <<>>
                             /\ c.workspaces[i].topUrls[j] \notin
                                   {evs[n].url : n \in 1..Len(evs)}

\* the checks c violates; without its required keys only the first can be judged
ViolatedChecks(c, evs) ==
    IF ~(RequiredKeys \subseteq DOMAIN c) THEN {1}
    ELSE {k \in 2..10 : Violates(c, evs, k)}

C24_FirstViolatedCheck ==
    Returned("validate_output") =>
        LET violated == ViolatedChecks(candidate, given)
        IN  /\ violated = {} => result = [kind |-> "valid"]
            /\ violated # {} =>
                  /\ result.kind = "raised"
                  /\ result.exc = "ValueError"
                  /\ result.error = CheckMessages[CHOOSE k \in violated :
                                                     \A j \in violated : k <= j]

C24_NoEffect ==
    (op = "validate_output" /\ pc' = "returned") =>
        (candidate' = candidate /\ events' = events)

\* C24: validate_output applies its checks in the order required keys,
\* workspace count, workspace structure, nextActions count, pendingDecisions
\* count, aiRecap sentences, aiActions count, aiActions domains, lastStop.url,
\* topUrls; the error raised is that of the earliest check the candidate
\* violates, and the call changes neither the candidate nor the events.
C24_ChecksInFixedOrder == []C24_FirstViolatedCheck /\ [][C24_NoEffect]_vars

\* a candidate violating the pendingDecisions, aiRecap and lastStop.url checks
\* was rejected for its pendingDecisions
C24_Witness ==
    /\ Returned("validate_output")
    /\ RequiredKeys \subseteq DOMAIN candidate
    /\ {5, 6, 9} \subseteq ViolatedChecks(candidate, given)
    /\ ViolatedChecks(candidate, given) \cap 1..4 = {}
    /\ result.kind = "raised"
    /\ result.error = "Too many pendingDecisions"

\* The non-empty fragments of a text split on '.', '?' and '!': one for each
\* character that is neither a separator nor white space and has only white
\* space between it and the separator (or the start) before it.
FragmentsOf(text) ==
    Cardinality({i \in 1..Len(text) :
        /\ text[i] \notin {".", "?", "!", " "}
        /\ \A j \in 1..(i - 1) :
              (\A k \in j..(i - 1) : text[k] \notin {".", "?", "!"}) => text[j] = " "})

SummaryTexts ==
    { <<>>, <<"w">>, <<"w", ".", "w", "?">>, <<"w", ".", "w", ".", "w", ".">>,
      <<"w", "!", "w", "!", "w", "!", "w", "!", "w">> }

\* C25: validate_output rejects a candidate whose aiRecap, split on '.', '?'
\* and '!', has fewer than 2 or more than 3 non-empty fragments; the accept or
\* reject outcome is the same whatever the sentence count of resumeSummary.
C25_RecapCountedSummaryNot ==
    (Returned("validate_output") /\ RequiredKeys \subseteq DOMAIN candidate) =>
        /\ FragmentsOf(candidate.aiRecap) \notin {2, 3} => result.kind = "raised"
        /\ result.kind = "valid" => FragmentsOf(candidate.aiRecap) \in {2, 3}
        /\ \A text \in SummaryTexts :
              validate_output([candidate EXCEPT !.resumeSummary = text], given).ok
                  <=> result.kind = "valid"

\* a candidate with a one-sentence resumeSummary and a two-sentence aiRecap was accepted
C25_Witness ==
    /\ Returned("validate_output")
    /\ result.kind = "valid"
    /\ FragmentsOf(candidate.resumeSummary) = 1
    /\ FragmentsOf(candidate.aiRecap) = 2

Argument == prev.value

Normalized == result.value

NonEmpty(rec, k) == k \in DOMAIN rec /\ Len(rec[k]) > 0

FirstThree(list) == [i \in 1..(IF Len(list) < 3 THEN Len(list) ELSE 3) |-> list[i]]

\* the parts of the statement about normalize_ai_fields that hold of every call
NormalizeFills ==
    /\ \A k \in DOMAIN Argument : k \in DOMAIN Normalized /\ Normalized[k] = Argument[k]
    /\ ("aiRecap" \notin DOMAIN Argument /\ NonEmpty(Argument, "resumeSummary")) =>
          (NonEmpty(Normalized, "aiRecap") /\ Normalized.aiRecap = Argument.resumeSummary)
    /\ ("resumeSummary" \notin DOMAIN Argument /\ NonEmpty(Argument, "aiRecap")) =>
          (NonEmpty(Normalized, "resumeSummary") /\ Normalized.resumeSummary = Argument.aiRecap)
    /\ ("aiActions" \notin DOMAIN Argument /\ NonEmpty(Argument, "nextActions")) =>
          (NonEmpty(Normalized, "aiActions")
           /\ Normalized.aiActions = FirstThree(Argument.nextActions))
    /\ "aiConfidenceScore" \notin DOMAIN Argument =>
          ("aiConfidenceScore" \in DOMAIN Normalized /\ Normalized.aiConfidenceScore = 0)
    /\ "aiConfidenceLabel" \notin DOMAIN Argument =>
          ("aiConfidenceLabel" \in DOMAIN Normalized
           /\ Normalized.aiConfidenceLabel = <<"low">>)

\* a second call on the object returned by the first gives that object again
NormalizeTwice == prev.calls >= 2 => Normalized = Argument

\* C26 as stated: an absent nextActions is set to aiActions whenever the
\* object has aiActions.
C26_AsStated ==
    Returned("normalize_ai_fields") =>
        /\ NormalizeFills
        /\ ("nextActions" \notin DOMAIN Argument /\ "aiActions" \in DOMAIN Argument) =>
              ("nextActions" \in DOMAIN Normalized
               /\ Normalized.nextActions = Argument.aiActions)
        /\ NormalizeTwice

\* C26: normalize_ai_fields never changes a key that is present; it sets an
\* absent aiRecap to a non-empty resumeSummary and an absent resumeSummary to
\* a non-empty aiRecap, an absent aiActions to the first 3 of a non-empty
\* nextActions, an absent nextActions to a non-empty aiActions, an absent
\* aiConfidenceScore to 0.0 and an absent aiConfidenceLabel to "low"; a second
\* application returns the object the first one returned.
C26_NormalizeFillsAliases ==
    Returned("normalize_ai_fields") =>
        /\ NormalizeFills
        /\ ("nextActions" \notin DOMAIN Argument /\ NonEmpty(Argument, "aiActions")) =>
              ("nextActions" \in DOMAIN Normalized
               /\ Normalized.nextActions = Argument.aiActions)
        /\ NormalizeTwice

\* the second call returned; the first had cut four nextActions to three
\* aiActions and filled aiRecap and both confidence fields
C26_Witness ==
    /\ Returned("normalize_ai_fields")
    /\ prev.calls = 2
    /\ DOMAIN Normalized = NormalizeKeys \cup {"goalInferred"}
    /\ Len(Normalized.nextActions) = 4
    /\ Len(Normalized.aiActions) = 3
    /\ Normalized.aiRecap = Normalized.resumeSummary
    /\ Normalized.aiConfidenceScore = 0

FirstLabel == result.value.workspaces[1].label

\* C27: for non-empty events analyzeSession returns the caller's goal as
\* goalInferred when the goal is non-empty, otherwise "Working on " followed
\* by the label of the first workspace, or the default string when that label
\* is empty; goalInferred is never the empty string.
C27_GoalInferred ==
    (Returned("analyzeSession") /\ given # <<>>) =>
        /\ result.kind = "summary"
        /\ result.value.workspaces # <<>>
        /\ goal # <<>> => result.value.goalInferred = goal
        /\ (goal = <<>> /\ FirstLabel # <<>>) =>
              result.value.goalInferred = <<"Working on ">> \o FirstLabel
        /\ (goal = <<>> /\ FirstLabel = <<>>) =>
              result.value.goalInferred = <<"No specific goal identified">>
        /\ result.value.goalInferred # <<>>

\* no goal was given and the first workspace has the empty label of an
\* event without URL: the default string was returned
C27_Witness ==
    /\ Returned("analyzeSession")
    /\ given # <<>>
    /\ goal = <<>>
    /\ FirstLabel = <<>>
    /\ Len(result.value.workspaces) > 1
    /\ result.value.goalInferred = <<"No specific goal identified">>

InputDurations == [i \in 1..Len(given) |-> given[i].durationSec]

GivenDomains == {extract_domain(given[i].url) : i \in 1..Len(given)}

\* C28: for non-empty events the resumeSummary of analyzeSession is
\* "Spent T seconds across N different sites." followed by " Most time on L.",
\* with T the total of durationSec over all input events, N the number of
\* distinct derived domains of the input and L the label of the first
\* workspace; nextActions is exactly "Continue work on L" and "Review progress
\* and plan next steps", and pendingDecisions is empty.
C28_SummaryTemplate ==
    (Returned("analyzeSession") /\ given # <<>>) =>
        /\ result.value.workspaces # <<>>
        /\ result.value.resumeSummary =
              <<"Spent ", ToString(SeqSum(InputDurations)), " seconds across ",
                ToString(Cardinality(GivenDomains)), " different sites.">>
              \o <<" Most time on ">> \o FirstLabel \o <<".">>
        /\ result.value.nextActions =
              << <<"Continue work on ">> \o FirstLabel,
                 <<"Review progress and plan next steps">> >>
        /\ result.value.pendingDecisions = <<>>

RuleDescriptions ==
    << <<"Press the \"Resume Session\" button to reopen the tab or workspace where you left off and continue your work seamlessly.">>,
       <<"Press the \"Resume Session\" button or use \"Continue where you left off\" to return to the workspace you were actively using.">>,
       <<"Review the most visited pages from your session to identify key resources and information you were working with.">>,
       <<"Go through your recent tabs to see what you were working on and identify any unfinished tasks.">>,
       <<"Make a decision on this item based on the context from your session and your current priorities.">>,
       <<"Complete this task that was started during your session to maintain momentum and avoid losing context.">>,
       <<"Work on this task based on your session activity and current priorities.">> >>

\* the k-th rule applies to a title in which the keywords `found` occur
RuleMatches(k, found) ==
    CASE k = 1 -> found \cap {"resume", "open last stop"} # {}
      [] k = 2 -> found \cap {"continue in", "workspace"} # {}
      [] k = 3 -> {"review", "pages"} \subseteq found
      [] k = 4 -> {"review", "tabs"} \subseteq found
      [] k = 5 -> "decide:" \in found
      [] k = 6 -> found \cap {"complete", "finish"} # {}
      [] OTHER -> TRUE

MatchingRules(title) == {k \in 1..7 : RuleMatches(k, TitleKeywords(title))}

EarliestRule(title) == CHOOSE k \in MatchingRules(title) : \A j \in MatchingRules(title) : k <= j

\* C29: generate_task_description returns the description of the earliest
\* rule that matches the lower-cased title, in the order "resume" or "open
\* last stop"; "continue in" or "workspace"; "review" and "pages"; "review"
\* and "tabs"; "decide:"; "complete" or "finish"; the generic default.  The
\* tasks of the basic plan, the "Decide: ..." ones included, carry the
\* description chosen this way for their title.
C29_FirstMatchingRuleWins ==
    /\ Returned("generate_task_description") =>
          result.value = PyStr(RuleDescriptions[EarliestRule(given.s)])
    /\ Returned("create_basic_task_plan") =>
          \A i \in 1..Len(BasicTasks) :
              BasicTasks[i].d.description =
                  PyStr(RuleDescriptions[EarliestRule(BasicTasks[i].d.title.s)])

\* a title starting with "Decide: " that matches the rules 4 and 5 got the
\* description of rule 4
C29_Witness ==
    /\ Returned("generate_task_description")
    /\ MatchingRules(given.s) = {4, 5, 7}
    /\ given.s[1] = "Decide: "
    /\ result.value.s = RuleDescriptions[4]

PlanTaskIds == {BasicTasks[i].d.id : i \in 1..Len(BasicTasks)}

\* the entries of a list value; a value that is no list refers to no task
Referenced(v) == IF v.t = "list" THEN {v.items[i] : i \in 1..Len(v.items)} ELSE {}

\* C30: in every plan returned by planTasks, sanitized external plan or basic
\* fallback plan, every id in taskOrder and every id in a task's dependencies
\* is the id of a task in prioritizedTasks.
C30_PlanReferencesItsTasks ==
    (Returned("planTasks") /\ result.kind = "plan") =>
        /\ Referenced(result.value.d.taskOrder) \subseteq PlanTaskIds
        /\ \A i \in 1..Len(BasicTasks) :
              Referenced(BasicTasks[i].d.dependencies) \subseteq PlanTaskIds

====
